---- MODULE Spec2Model ----
(***************************************************************************)
(* Verification model of the AFAD earthquake analysis core                 *)
(* (MaryamKhan23/AFADProject): FFT, detrend, Boore high-pass filter,       *)
(* trapezoidal integration, bracketed duration, Newmark-Beta response      *)
(* spectrum sweep and the record-analysis pipeline.                        *)
(*                                                                         *)
(* Numbers.  JavaScript numbers are modelled exactly, without rounding:    *)
(* a finite number is <<p, q, d>> with d > 0, standing for                 *)
(* (p + q*sqrt(2)) / d in lowest terms, which is closed under every        *)
(* operation the code applies for transform lengths up to 8 (the twiddle   *)
(* factors of a length-8 transform are 0, +-1 and +-sqrt(2)/2).  The       *)
(* non-finite numbers are d = 0: NaN = <<0,0,0>>, Infinity = <<1,0,0>>,    *)
(* -Infinity = <<-1,0,0>>.  Signed zero is not distinguished.              *)
(***************************************************************************)
EXTENDS Integers, Sequences, FiniteSets, TLC

\* ------------------------------------------------------------- numbers

Abs(n) == IF n < 0 THEN -n ELSE n

RECURSIVE Gcd(_, _)
Gcd(a, b) == IF b = 0 THEN a ELSE Gcd(b, a % b)

NaN == <<0, 0, 0>>
PInf == <<1, 0, 0>>
NInf == <<-1, 0, 0>>

IsFinite(x) == x[3] # 0
IsNaN(x) == x = NaN

\* (p + q*sqrt2)/d in lowest terms with d > 0; d # 0 is required.
Norm(p, q, d) ==
  LET g == Gcd(Gcd(Abs(p), Abs(q)), Abs(d))
      s == IF d < 0 THEN -1 ELSE 1
  IN  <<(s * p) \div g, (s * q) \div g, (s * d) \div g>>

Rat(n, d) == Norm(n, 0, d)
Num(n) == <<n, 0, 1>>
Zero == Num(0)
One == Num(1)

SgnInt(n) == IF n > 0 THEN 1 ELSE IF n < 0 THEN -1 ELSE 0

\* Sign of a number that is not NaN: -1, 0 or 1.
Sgn(x) ==
  IF x[3] = 0 THEN x[1]
  ELSE LET p == x[1]
           q == x[2]
       IN  IF q = 0 THEN SgnInt(p)
           ELSE IF p = 0 THEN SgnInt(q)
           ELSE IF SgnInt(p) = SgnInt(q) THEN SgnInt(p)
           ELSE IF p * p > 2 * q * q THEN SgnInt(p) ELSE SgnInt(q)

InfOf(s) == IF s > 0 THEN PInf ELSE NInf

Neg(x) == <<-x[1], -x[2], x[3]>>

Add(x, y) ==
  IF IsNaN(x) \/ IsNaN(y) THEN NaN
  ELSE IF ~IsFinite(x) /\ ~IsFinite(y) THEN (IF x = y THEN x ELSE NaN)
  ELSE IF ~IsFinite(x) THEN x
  ELSE IF ~IsFinite(y) THEN y
  ELSE LET g == Gcd(x[3], y[3])
           fx == y[3] \div g
           fy == x[3] \div g
       IN  Norm(x[1] * fx + y[1] * fy, x[2] * fx + y[2] * fy, x[3] * fx)

Sub(x, y) == Add(x, Neg(y))

Mul(x, y) ==
  IF IsNaN(x) \/ IsNaN(y) THEN NaN
  ELSE IF ~IsFinite(x) \/ ~IsFinite(y)
       THEN (IF Sgn(x) * Sgn(y) = 0 THEN NaN ELSE InfOf(Sgn(x) * Sgn(y)))
  ELSE Norm(x[1] * y[1] + 2 * x[2] * y[2], x[1] * y[2] + x[2] * y[1], x[3] * y[3])

\* 1/y for a finite y # 0: d*(p - q*sqrt2) / (p^2 - 2*q^2).
Inv(y) == Norm(y[3] * y[1], -(y[3] * y[2]), y[1] * y[1] - 2 * y[2] * y[2])

Div(x, y) ==
  IF IsNaN(x) \/ IsNaN(y) THEN NaN
  ELSE IF ~IsFinite(x) THEN (IF ~IsFinite(y) THEN NaN
                             ELSE InfOf(Sgn(x) * (IF Sgn(y) < 0 THEN -1 ELSE 1)))
  ELSE IF ~IsFinite(y) THEN Zero
  ELSE IF Sgn(y) = 0 THEN (IF Sgn(x) = 0 THEN NaN ELSE InfOf(Sgn(x)))
  ELSE Mul(x, Inv(y))

\* Comparisons are false as soon as one side is NaN, as in JavaScript.
Lt(x, y) ==
  /\ ~IsNaN(x)
  /\ ~IsNaN(y)
  /\ x # y
  /\ IF ~IsFinite(x) THEN x = NInf
     ELSE IF ~IsFinite(y) THEN y = PInf
     ELSE Sgn(Sub(y, x)) > 0

Le(x, y) == ~IsNaN(x) /\ ~IsNaN(y) /\ (x = y \/ Lt(x, y))
Ge(x, y) == Le(y, x)
Gt(x, y) == Lt(y, x)

\* Math.abs
MathAbs(x) == IF IsNaN(x) THEN NaN ELSE IF Sgn(x) < 0 THEN Neg(x) ELSE x

\* Math.max(...xs): -Infinity for no argument, NaN as soon as one is NaN.
RECURSIVE MathMaxFrom(_, _, _)
MathMaxFrom(xs, i, best) ==
  IF i > Len(xs) THEN best
  ELSE IF IsNaN(xs[i]) \/ IsNaN(best) THEN NaN
  ELSE MathMaxFrom(xs, i + 1, IF Gt(xs[i], best) THEN xs[i] ELSE best)

MathMax(xs) == MathMaxFrom(xs, 1, NInf)

MapSeq(Op(_), s) == [i \in 1..Len(s) |-> Op(s[i])]

\* max(|x|) over an array, as Math.max(...xs.map(Math.abs)).
maxAbs(xs) == MathMax(MapSeq(MathAbs, xs))

\* ------------------------------------------------------------ sequences

RECURSIVE SumFrom(_, _)
SumFrom(xs, i) == IF i > Len(xs) THEN Zero ELSE Add(xs[i], SumFrom(xs, i + 1))

\* Math.pow(2, Math.ceil(Math.log2(n))) for n >= 1: the least power of two >= n.
RECURSIVE Pow2From(_, _)
Pow2From(n, p) == IF p >= n THEN p ELSE Pow2From(n, 2 * p)

NextPow2(n) == Pow2From(n, 1)

IsPow2(n) == n >= 1 /\ NextPow2(n) = n

\* xs.slice(0, n)
Slice(xs, n) == SubSeq(xs, 1, IF n < Len(xs) THEN n ELSE Len(xs))

\* ------------------------------------------------------------- detrend

\* The residual taken against slope * (i + 1) + intercept, the index counted
\* from 1 in the line that is subtracted.
LeastSquaresResidual_fromOne(data) ==
  LET n == Len(data)
      sumX == Num((n * (n - 1)) \div 2)
      sumXX == Num(((n - 1) * n * (2 * n - 1)) \div 6)
      subtract(slope, intercept) ==
        [i \in 1..n |-> Sub(data[i], Add(Mul(slope, Num(i)), intercept))]
      line(sumY, slope) == subtract(slope, Div(Sub(sumY, Mul(slope, sumX)), Num(n)))
      fit(sumY, sumXY) ==
        line(sumY, Div(Sub(Mul(Num(n), sumXY), Mul(sumX, sumY)),
                       Sub(Mul(Num(n), sumXX), Mul(sumX, sumX))))
  IN  fit(SumFrom(data, 1), SumFrom([i \in 1..n |-> Mul(Num(i - 1), data[i])], 1))

\* The least-squares line over the sample index i = 0..n-1, subtracted from
\* every sample.  For n = 1 the slope is 0/0 = NaN.
LeastSquaresResidual(data) ==
  LET n == Len(data)
      sumX == Num((n * (n - 1)) \div 2)
      sumXX == Num(((n - 1) * n * (2 * n - 1)) \div 6)
      subtract(slope, intercept) ==
        [i \in 1..n |-> Sub(data[i], Add(Mul(slope, Num(i - 1)), intercept))]
      line(sumY, slope) == subtract(slope, Div(Sub(sumY, Mul(slope, sumX)), Num(n)))
      fit(sumY, sumXY) ==
        line(sumY, Div(Sub(Mul(Num(n), sumXY), Mul(sumX, sumY)),
                       Sub(Mul(Num(n), sumXX), Mul(sumX, sumX))))
  IN  fit(SumFrom(data, 1), SumFrom([i \in 1..n |-> Mul(Num(i - 1), data[i])], 1))

\* No detrending at all: the series as it came.
detrend_skipped(data) == data

\* utils.js detrend; SignalProcessor.detrend and the GUI analyzer's detrend are
\* the same code.
detrend(data) == IF Len(data) < 2 THEN data ELSE LeastSquaresResidual(data)

\* filters.js detrend: only the empty input is returned early.
filters_detrend(data) == IF Len(data) = 0 THEN <<>> ELSE LeastSquaresResidual(data)

\* array_utils.js mean
mean(arr) == IF Len(arr) = 0 THEN NaN ELSE Div(SumFrom(arr, 1), Num(Len(arr)))

\* array_utils.js detrend(data, 'linear'): the slope from the centred sums,
\* and 0 when their denominator is 0.
arrayUtils_detrend(data) ==
  IF Len(data) = 0 THEN <<>>
  ELSE LET n == Len(data)
           subtract(slope, intercept) ==
             [i \in 1..n |-> Sub(data[i], Add(Mul(slope, Num(i - 1)), intercept))]
           line(xMean, yMean, slope) == subtract(slope, Sub(yMean, Mul(slope, xMean)))
           ratio(xMean, yMean, numerator, denominator) ==
             line(xMean, yMean,
                  IF denominator # Zero THEN Div(numerator, denominator) ELSE Zero)
           centred(xMean, yMean) ==
             ratio(xMean, yMean,
                   SumFrom([i \in 1..n |->
                              Mul(Sub(Num(i - 1), xMean), Sub(data[i], yMean))], 1),
                   SumFrom([i \in 1..n |->
                              Mul(Sub(Num(i - 1), xMean), Sub(Num(i - 1), xMean))], 1))
       IN  centred(mean([i \in 1..n |-> Num(i - 1)]), mean(data))

\* The integrated processor's detrend: no early return at all.
integrated_detrend(data) == LeastSquaresResidual(data)

\* ----------------------------------------------------------------- FFT

Cx(re, im) == [real |-> re, imag |-> im]

toComplex(xs) == [i \in 1..Len(xs) |-> Cx(xs[i], Zero)]

complexAdd(a, b) == Cx(Add(a.real, b.real), Add(a.imag, b.imag))

complexSubtract(a, b) == Cx(Sub(a.real, b.real), Sub(a.imag, b.imag))

complexMultiply(a, b) ==
  Cx(Sub(Mul(a.real, b.real), Mul(a.imag, b.imag)),
     Add(Mul(a.real, b.imag), Mul(a.imag, b.real)))

HalfSqrt2 == <<0, 1, 2>>

\* cos and sin of m*pi/4, m in 0..7.
Cos8(m) ==
  CASE m = 0 -> One
    [] m = 1 -> HalfSqrt2
    [] m = 2 -> Zero
    [] m = 3 -> Neg(HalfSqrt2)
    [] m = 4 -> Neg(One)
    [] m = 5 -> Neg(HalfSqrt2)
    [] m = 6 -> Zero
    [] m = 7 -> HalfSqrt2

Sin8(m) == Cos8((m + 6) % 8)

\* The twiddle factor {cos(angle), sin(angle)} with angle = -2*pi*k/N, for the
\* N that divide 8.
twiddle(k, N) ==
  LET m == (8 - (((8 * k) \div N) % 8)) % 8
  IN  Cx(Cos8(m), Sin8(m))

EvenIdx(x) == [i \in 1..((Len(x) + 1) \div 2) |-> x[2 * i - 1]]
OddIdx(x) == [i \in 1..(Len(x) \div 2) |-> x[2 * i]]

Thrown(kind) == [err |-> kind, out |-> <<>>]
Returned(xs) == [err |-> "none", out |-> xs]

\* The radix-2 recursion.  The combine loop runs for k = 0 .. k < N/2, that is
\* ceil(N/2) times, and reads oddFFT[k]: with an odd N > 1 the last read is
\* undefined and complexMultiply throws a TypeError.
RECURSIVE fftRecursive(_)
fftRecursive(x) ==
  LET N == Len(x)
  IN  IF N <= 1 THEN Returned(x)
      ELSE LET evenFFT == fftRecursive(EvenIdx(x))
               oddFFT == fftRecursive(OddIdx(x))
               iters == (N + 1) \div 2
           IN  IF evenFFT.err # "none" THEN evenFFT
               ELSE IF oddFFT.err # "none" THEN oddFFT
               ELSE IF Len(oddFFT.out) < iters THEN Thrown("TypeError")
               ELSE Returned(
                      [i \in 1..N |->
                         LET k == (i - 1) % (N \div 2)
                             combine(e, temp) ==
                               IF i - 1 < N \div 2 THEN complexAdd(e, temp)
                               ELSE complexSubtract(e, temp)
                         IN  combine(evenFFT.out[k + 1],
                                     complexMultiply(twiddle(k, N), oddFFT.out[k + 1]))])

ZeroPad(x, n) == [i \in 1..n |-> IF i <= Len(x) THEN x[i] ELSE Cx(Zero, Zero)]

\* utils.js fft on an array of complex samples (a real sample is converted
\* first): pads with zeros up to the next power of two.
fftComplex(x) ==
  IF Len(x) <= 1 THEN Returned(x)
  ELSE fftRecursive(ZeroPad(x, NextPow2(Len(x))))

\* utils.js fft; SignalProcessor.fft, the GUI analyzer's fft and the integrated
\* processor's fft pad in the same way.
fft(signal) == fftComplex(toComplex(signal))

\* filters.js fft: converts to complex and recurses, without padding.
filters_fft(x) ==
  IF Len(x) <= 1 THEN Returned(toComplex(x)) ELSE fftRecursive(toComplex(x))

conj(X) == [i \in 1..Len(X) |-> Cx(X[i].real, Neg(X[i].imag))]

scaleConj(r, n) ==
  [i \in 1..Len(r) |-> Cx(Div(r[i].real, Num(n)), Div(Neg(r[i].imag), Num(n)))]

\* An inverse transform that forgets the division by the length.
ifft_unscaled(spectrum) ==
  LET scale(result) ==
        IF result.err # "none" THEN result ELSE Returned(scaleConj(result.out, 1))
  IN  scale(fftComplex(conj(spectrum)))

\* utils.js ifft: conjugate, forward fft (which pads), conjugate and divide by
\* the length of the transform.
ifft(spectrum) ==
  LET scale(result) ==
        IF result.err # "none" THEN result
        ELSE Returned(scaleConj(result.out, Len(result.out)))
  IN  scale(fftComplex(conj(spectrum)))

\* SignalProcessor.ifft; filters.js ifft, the GUI analyzer's and the integrated
\* processor's are the same: conjugate, recurse without padding, divide by
\* X.length.
sp_ifft(X) ==
  LET scale(result) ==
        IF result.err # "none" THEN result ELSE Returned(scaleConj(result.out, Len(X)))
  IN  scale(fftRecursive(conj(X)))

\* ------------------------------------------------------ Boore high-pass

\* The 0/1 mask over n bins of width fs/N: frequencies.map(f => f >= fc ? 1 : 0).
maskGe(n, N, fs, fc) ==
  [i \in 1..n |-> IF Ge(Div(Mul(Num(i - 1), fs), Num(N)), fc) THEN One ELSE Zero]

\* filters.js writes the test the other way round: freq < fc ? 0 : 1.
maskNotLt(n, N, fs, fc) ==
  [i \in 1..n |-> IF Lt(Div(Mul(Num(i - 1), fs), Num(N)), fc) THEN Zero ELSE One]

\* The mask left as the comparison made it, the upper bins not mirrored.
symmetrize_skipped(filter, from, N) == filter

\* for (i = from; i < N; i++) filter[i] = filter[N - i], on 0-based indices;
\* the loop runs upwards, so every filter[N - i] it reads is still the
\* unsymmetrised entry (N - i < from <= i).
symmetrize(filter, from, N) ==
  [i \in 1..Len(filter) |->
     IF i - 1 >= from /\ i - 1 < N THEN filter[N - (i - 1) + 1] ELSE filter[i]]

\* Math.floor(N/2) + 1 for even N, Math.floor((N+1)/2) for odd N.
symStart(N) == IF N % 2 = 0 THEN (N \div 2) + 1 ELSE (N + 1) \div 2

\* fftData.map((c, i) => ({real: c.real * filter[i], imag: c.imag * filter[i]})):
\* a bin past the end of the filter is multiplied by undefined, which gives NaN.
applyFilter(fftData, filter) ==
  [i \in 1..Len(fftData) |->
     IF i <= Len(filter)
     THEN Cx(Mul(fftData[i].real, filter[i]), Mul(fftData[i].imag, filter[i]))
     ELSE Cx(NaN, NaN)]

realPart(cs) == [i \in 1..Len(cs) |-> cs[i].real]

\* utils.js highPassFilter: the mask is built over the padded length and the
\* whole inverse transform is returned.
highPassFilter(data, fs, cornerFreq) ==
  LET filtered(fftData) ==
        LET n == Len(fftData)
            hpFilter == symmetrize(maskGe(n, n, fs, cornerFreq), (n \div 2) + 1, n)
        IN  Returned(realPart(ifft(applyFilter(fftData, hpFilter)).out))
  IN  filtered(fft(detrend(data)).out)

\* SignalProcessor.highPassFilter (processWithMatlab.js); the GUI analyzer's
\* preprocessBoore computes the same: the result is sliced to data.length.
sp_highPassFilter(data, fs, cornerFreq) ==
  LET filtered(fftData) ==
        LET N == Len(fftData)
            filter == symmetrize(maskGe(N, N, fs, cornerFreq), (N \div 2) + 1, N)
        IN  Returned(Slice(realPart(sp_ifft(applyFilter(fftData, filter)).out), Len(data)))
  IN  filtered(fft(detrend(data)).out)

\* filters.js preprocessBoore: validates its arguments, then filters with the
\* unpadded fft of the same file.
preprocessBoore(data, fs, cornerFreq) ==
  IF Len(data) = 0 THEN Thrown("Error")
  ELSE IF Le(fs, Zero) \/ Le(cornerFreq, Zero) THEN Thrown("Error")
  ELSE LET filtered(N, fftData) ==
             LET hpFilter == symmetrize(maskNotLt(N, N, fs, cornerFreq), symStart(N), N)
             IN  IF fftData.err # "none" THEN fftData
                 ELSE Returned(realPart(sp_ifft(applyFilter(fftData.out, hpFilter)).out))
           transformed(detrendedData) ==
             filtered(Len(detrendedData), filters_fft(detrendedData))
       IN  transformed(filters_detrend(data))

\* The integrated processor's preprocessBoore: N is the unpadded length, the
\* spectrum has the padded one, and nothing is sliced.
integrated_preprocessBoore(data, fs, cornerFreq) ==
  LET filtered(N, fftData) ==
        LET hpFilter == symmetrize(maskGe(N, N, fs, cornerFreq), symStart(N), N)
        IN  Returned(realPart(sp_ifft(applyFilter(fftData, hpFilter)).out))
      transformed(detrended) == filtered(Len(detrended), fft(detrended).out)
  IN  transformed(integrated_detrend(data))

\* ---------------------------------------------------------- integration

\* y[i] read from a JavaScript array: undefined past the end, which turns the
\* arithmetic it enters into NaN.
At(y, i) == IF i >= 1 /\ i <= Len(y) THEN y[i] ELSE NaN

RECURSIVE cumtrapzLoop(_, _, _, _)
cumtrapzLoop(x, y, n, result) ==
  LET i == Len(result) + 1
  IN  IF i > n THEN result
      ELSE LET dx == Sub(At(x, i), At(x, i - 1))
               avgY == Div(Add(At(y, i), At(y, i - 1)), Num(2))
           IN  cumtrapzLoop(x, y, n, Append(result, Add(result[i - 1], Mul(dx, avgY))))

\* cumtrapz whose steps add dx * (y[i] + y[i-1]), without the halving.
RECURSIVE unhalvedLoop(_, _, _, _)
unhalvedLoop(x, y, n, result) ==
  IF Len(result) + 1 > n THEN result
  ELSE unhalvedLoop(x, y, n,
         Append(result,
                Add(result[Len(result)],
                    Mul(Sub(At(x, Len(result) + 1), At(x, Len(result))),
                        Add(At(y, Len(result) + 1), At(y, Len(result)))))))

cumtrapz_unhalved(x, y) ==
  IF Len(x) # Len(y) THEN Thrown("Error")
  ELSE Returned(unhalvedLoop(x, y, Len(x), <<Zero>>))

\* utils.js cumtrapz; SignalProcessor.cumtrapz and the GUI analyzer's cumtrapz
\* make the same length test and run the same loop.  result[0] = 0 is written
\* before the loop, also for an empty input.
cumtrapz(x, y) ==
  IF Len(x) # Len(y) THEN Thrown("Error")
  ELSE Returned(cumtrapzLoop(x, y, Len(x), <<Zero>>))

RECURSIVE trapzLoop(_, _, _, _)
trapzLoop(x, y, i, integral) ==
  IF i > Len(x) THEN integral
  ELSE trapzLoop(x, y, i + 1,
         Add(integral, Mul(Sub(x[i], x[i - 1]),
                           Div(Add(At(y, i), At(y, i - 1)), Num(2)))))

\* utils.js trapz
trapz(x, y) ==
  IF Len(x) # Len(y) \/ Len(x) < 2 THEN Thrown("Error")
  ELSE Returned(<<trapzLoop(x, y, 2, Zero)>>)

\* The integrated processor's trapz: the loop alone, without any test.
integrated_trapz(x, y) == Returned(<<trapzLoop(x, y, 2, Zero)>>)

StrictlyIncreasing(time) ==
  \A i \in 2..Len(time) : Lt(time[i - 1], time[i])

\* ---------------------------------------------------- intensity measures

\* Array.from({length: n}, (_, i) => i * dt)
generateTimeArray(dt, n) == [i \in 1..n |-> Mul(Num(i - 1), dt)]

\* SignalProcessor.calculatePeakValues
calculatePeakValues(acceleration, velocity, displacement) ==
  [PGA |-> maxAbs(acceleration), PGV |-> maxAbs(velocity), PGD |-> maxAbs(displacement)]

\* aboveThreshold with > in place of >=.
aboveThreshold_strict(acceleration, threshold) ==
  LET exceeds(i) == Gt(MathAbs(acceleration[i + 1]), threshold)
  IN  SelectSeq([i \in 1..Len(acceleration) |-> i - 1], exceeds)

\* acceleration.map((acc, i) => Math.abs(acc) >= threshold ? i : -1)
\*             .filter(i => i !== -1): the 0-based indices, in order.
aboveThreshold(acceleration, threshold) ==
  LET reaches(i) == Ge(MathAbs(acceleration[i + 1]), threshold)
  IN  SelectSeq([i \in 1..Len(acceleration) |-> i - 1], reaches)

\* SignalProcessor.calculateBracketedDuration; the GUI analyzer's is the same.
calculateBracketedDuration(time, acceleration, threshold) ==
  LET bracket(above) ==
        IF Len(above) = 0
        THEN [duration |-> Zero, startTime |-> NaN, endTime |-> NaN,
              startIndex |-> -1, endIndex |-> -1]
        ELSE [duration |-> Sub(At(time, above[Len(above)] + 1), At(time, above[1] + 1)),
              startTime |-> At(time, above[1] + 1),
              endTime |-> At(time, above[Len(above)] + 1),
              startIndex |-> above[1], endIndex |-> above[Len(above)]]
  IN  bracket(aboveThreshold(acceleration, threshold))

\* The null of JavaScript, which is no number.
Null == <<0, 0, -1>>

\* threshold || (0.05 * PGA)
analysis_thresh(acceleration, threshold) ==
  IF threshold = Null \/ IsNaN(threshold) \/ threshold = Zero
  THEN Mul(Rat(1, 20), maxAbs(acceleration)) ELSE threshold

\* EarthquakeAnalyzer.calculateBracketedDuration of analysis.js: the items
\* kept by the filter carry their time; no index is reported.
analysis_calculateBracketedDuration(acceleration, time, threshold) ==
  LET bracket(thresh, above) ==
        IF Len(above) = 0
        THEN [duration |-> Zero, startTime |-> Null, endTime |-> Null,
              threshold |-> thresh, exceedances |-> 0]
        ELSE [duration |-> Sub(At(time, above[Len(above)] + 1), At(time, above[1] + 1)),
              startTime |-> At(time, above[1] + 1),
              endTime |-> At(time, above[Len(above)] + 1),
              threshold |-> thresh, exceedances |-> Len(above)]
      withThresh(thresh) == bracket(thresh, aboveThreshold(acceleration, thresh))
  IN  withThresh(analysis_thresh(acceleration, threshold))

\* EarthquakeAnalyzer.calculateBracketedDuration of the integrated processor:
\* threshold is the ratio, and PGA is taken inside.
integrated_calculateBracketedDuration(acceleration, time, threshold) ==
  LET bracket(above) ==
        IF Len(above) = 0
        THEN [duration |-> Zero, startTime |-> NaN, endTime |-> NaN]
        ELSE [duration |-> Sub(At(time, above[Len(above)] + 1), At(time, above[1] + 1)),
              startTime |-> At(time, above[1] + 1),
              endTime |-> At(time, above[Len(above)] + 1)]
  IN  bracket(aboveThreshold(acceleration, Mul(threshold, maxAbs(acceleration))))

\* ------------------------------------------------------- site frequency
\* A magnitude sqrt(re^2 + im^2) is carried as its square re^2 + im^2: the
\* square root is increasing, so every comparison of magnitudes is the
\* comparison of their squares.
magnitudeSq(x) == Add(Mul(x.real, x.real), Mul(x.imag, x.imag))

\* The undefined of JavaScript (an array read outside the array).
Undefined == <<0, 0, -2>>

\* xs.indexOf(v), 0-based: the first position holding v, or -1.
RECURSIVE indexOfFrom(_, _, _)
indexOfFrom(xs, v, i) ==
  IF i > Len(xs) THEN -1
  ELSE IF ~IsNaN(v) /\ xs[i] = v THEN i - 1
  ELSE indexOfFrom(xs, v, i + 1)

indexOf(xs, v) == indexOfFrom(xs, v, 1)

\* frequencies[maxIndex] where frequencies[i] = i * fs / N for i < length.
frequencyAt(maxIndex, length, fs, N) ==
  IF maxIndex >= 0 /\ maxIndex < length THEN Div(Mul(Num(maxIndex), fs), Num(N))
  ELSE Undefined

\* The body of findSiteFrequency over the first count bins of fftResult.
siteFrequencyOver(fftResult, count, fs) ==
  LET picked(magnitudes, maxIndex) ==
        [index |-> maxIndex,
         frequency |-> frequencyAt(maxIndex, count, fs, Len(fftResult)),
         magnitudeSq |-> IF maxIndex >= 0 THEN magnitudes[maxIndex + 1] ELSE Undefined]
      measured(magnitudes) == picked(magnitudes, indexOf(magnitudes, MathMax(magnitudes)))
  IN  measured([i \in 1..count |-> magnitudeSq(fftResult[i])])

\* SignalProcessor.findSiteFrequency: fftResult.slice(0, Math.floor(N/2)).
findSiteFrequency(acceleration, fs) ==
  LET over(fftResult) == siteFrequencyOver(fftResult, Len(fftResult) \div 2, fs)
  IN  over(fft(acceleration).out)

\* The loop of findDominantFrequency: starts at bin 1 with maxAmplitude 0.
RECURSIVE dominantLoop(_, _, _, _)
dominantLoop(amplitudes, i, maxAmplitude, maxIndex) ==
  IF i >= Len(amplitudes) THEN [amplitudeSq |-> maxAmplitude, index |-> maxIndex]
  ELSE IF Gt(amplitudes[i + 1], maxAmplitude)
  THEN dominantLoop(amplitudes, i + 1, amplitudes[i + 1], i)
  ELSE dominantLoop(amplitudes, i + 1, maxAmplitude, maxIndex)

\* fourierTransform of the transforms module, as far as its single-sided
\* amplitudes (squared): |X|/N, doubled except at DC and at the last bin.
singleSidedAmplitudes(fftResult, N) ==
  [i \in 1..(IF (N \div 2) + 1 < Len(fftResult) THEN (N \div 2) + 1 ELSE Len(fftResult)) |->
     IF i = 1 \/ i = (IF (N \div 2) + 1 < Len(fftResult) THEN (N \div 2) + 1
                      ELSE Len(fftResult))
     THEN Div(magnitudeSq(fftResult[i]), Num(N * N))
     ELSE Div(Mul(Num(4), magnitudeSq(fftResult[i])), Num(N * N))]

\* findDominantFrequency(signal, samplingRate) of the transforms module; its
\* fft is the one of filters.js.
findDominantFrequency(signal, samplingRate) ==
  IF Len(signal) = 0 THEN Thrown("Error")
  ELSE IF filters_fft(signal).err # "none" THEN Thrown(filters_fft(signal).err)
  ELSE LET reported(amplitudes, peak) ==
             Returned([index |-> peak.index,
                       frequency |-> frequencyAt(peak.index, Len(amplitudes),
                                                 samplingRate, Len(signal)),
                       magnitudeSq |-> peak.amplitudeSq])
           scanned(amplitudes) ==
             reported(amplitudes, dominantLoop(amplitudes, 1, Zero, 1))
       IN  scanned(singleSidedAmplitudes(filters_fft(signal).out, Len(signal)))

\* The GUI analyzer's findSiteFrequency: N is acceleration.length, taken
\* before the transform pads, for the frequency axis and for the slice alike.
gui_findSiteFrequency(acceleration, fs) ==
  LET N == Len(acceleration)
      picked(amplitudes, maxIndex) ==
        [index |-> maxIndex,
         frequency |-> frequencyAt(maxIndex, N \div 2, fs, N),
         magnitudeSq |-> IF maxIndex >= 0 THEN amplitudes[maxIndex + 1] ELSE Undefined]
      measured(amplitudes) == picked(amplitudes, indexOf(amplitudes, MathMax(amplitudes)))
      over(fftResult) ==
        measured([i \in 1..(IF N \div 2 < Len(fftResult) THEN N \div 2 ELSE Len(fftResult)) |->
                    magnitudeSq(fftResult[i])])
  IN  over(fft(acceleration).out)

\* The integrated processor's calculateSiteFrequency over its fourierAnalysis:
\* the single-sided amplitudes |Y|/L of the first floor(L/2) + 1 bins of the
\* padded transform, against f[i] = fs * i / L with L = signal.length.
integrated_calculateSiteFrequency(acceleration, fs) ==
  LET picked(amplitudes, maxIndex) ==
        [index |-> maxIndex,
         frequency |-> frequencyAt(maxIndex, Len(amplitudes), fs, Len(acceleration)),
         magnitudeSq |-> IF maxIndex >= 0 THEN amplitudes[maxIndex + 1] ELSE Undefined]
      measured(amplitudes) == picked(amplitudes, indexOf(amplitudes, MathMax(amplitudes)))
  IN  measured(singleSidedAmplitudes(fft(acceleration).out, Len(acceleration)))

\* ------------------------------------------------------ Arias intensity
\* The factor Math.PI / (2 * g) is one fixed constant of every implementation
\* (g = 9.81): an Arias intensity is carried as the number it multiplies.
timesPiOver2g(val) == val

\* accSquared without the conversion from cm/s^2 to m/s^2.
accSquared_unconverted(acceleration) ==
  [i \in 1..Len(acceleration) |-> Mul(acceleration[i], acceleration[i])]

\* acceleration.map(a => a / 100).map(a => a * a)
accSquared(acceleration) ==
  [i \in 1..Len(acceleration) |->
     Mul(Div(acceleration[i], Num(100)), Div(acceleration[i], Num(100)))]

scaleBy(xs, c) == [i \in 1..Len(xs) |-> Mul(xs[i], c)]

\* SignalProcessor.calculateAriasIntensity
calculateAriasIntensity(time, acceleration) ==
  LET reported(cumulative) ==
        [total |-> Mul(At(cumulative, Len(cumulative)), Num(100)),
         cumulative |-> scaleBy(cumulative, Num(100)),
         totalMeterUnits |-> At(cumulative, Len(cumulative))]
      integrated(res) ==
        IF res.err # "none" THEN Thrown(res.err)
        ELSE Returned(reported(MapSeq(timesPiOver2g, res.out)))
  IN  integrated(cumtrapz(time, accSquared(acceleration)))

\* EarthquakeAnalyzer.calculateAriasIntensity of analysis.js, on trapz and
\* cumtrapz of utils.js.
analysis_calculateAriasIntensity(acceleration, time) ==
  LET reported(integral, cumulativeAI) ==
        IF integral.err # "none" THEN Thrown(integral.err)
        ELSE IF cumulativeAI.err # "none" THEN Thrown(cumulativeAI.err)
        ELSE Returned([ariasIntensity |->
                         Mul(timesPiOver2g(integral.out[1]), Num(100)),
                       cumulativeAI |->
                         scaleBy(MapSeq(timesPiOver2g, cumulativeAI.out), Num(100))])
      squared(accelerationSquared) ==
        reported(trapz(time, accelerationSquared), cumtrapz(time, accelerationSquared))
  IN  squared(accSquared(acceleration))

\* EarthquakeAnalyzer.calculateAriasIntensity of the integrated processor:
\* the total alone, in meter units.
integrated_calculateAriasIntensity(acceleration, time) ==
  Returned(timesPiOver2g(integrated_trapz(time, accSquared(acceleration)).out[1]))

\* ------------------------------------------------------- Newmark-Beta
\* A period T enters the recurrence only through omega = 2*pi/T; the model
\* names a period by its omega, so that a grid is a sequence of omegas and the
\* period T = 0 is omega = Infinity.

beta == Rat(1, 4)
gamma == Rat(1, 2)

\* The six integration constants, computed once per sweep from dt.
newmarkConstants(dt) ==
  [a0 |-> Div(One, Mul(Mul(beta, dt), dt)),
   a1 |-> Div(gamma, Mul(beta, dt)),
   a2 |-> Div(One, Mul(beta, dt)),
   a3 |-> Sub(Div(One, Mul(Num(2), beta)), One),
   a4 |-> Sub(Div(gamma, beta), One),
   a5 |-> Mul(dt, Sub(Div(gamma, Mul(Num(2), beta)), One))]

\* Unit mass, stiffness k = m*omega^2, damping c = 2*zeta*m*omega and the
\* effective stiffness keff = k + a0*m + a1*c.
oscillator(K, omega, zeta) ==
  LET m == One
      k == Mul(Mul(m, omega), omega)
      c == Mul(Mul(Mul(Num(2), zeta), m), omega)
  IN  [m |-> m, k |-> k, c |-> c, keff |-> Add(Add(k, Mul(K.a0, m)), Mul(K.a1, c))]

\* The load of a step taken from the sample itself, not from its increment.
stepDu_absolute(K, o, acceleration, j, u, v, a) ==
  LET dp == Mul(Neg(o.m), acceleration[j])
      rhs == Add(Add(dp,
                     Mul(o.m, Add(Add(Mul(K.a0, u), Mul(K.a2, v)), Mul(K.a3, a)))),
                 Mul(o.c, Add(Add(Mul(K.a1, u), Mul(K.a4, v)), Mul(K.a5, a))))
  IN  Div(rhs, o.keff)

\* rhs / keff of one time step j (1-based index of the new sample).
stepDu(K, o, acceleration, j, u, v, a) ==
  LET dp == Mul(Neg(o.m), Sub(acceleration[j], acceleration[j - 1]))
      rhs == Add(Add(dp,
                     Mul(o.m, Add(Add(Mul(K.a0, u), Mul(K.a2, v)), Mul(K.a3, a)))),
                 Mul(o.c, Add(Add(Mul(K.a1, u), Mul(K.a4, v)), Mul(K.a5, a))))
  IN  Div(rhs, o.keff)

\* SignalProcessor.calculateResponseSpectrum (and the GUI analyzer's):
\* dv = a1*du - a4*u - a2*v - a5*a;  da = a0*du - a0*u - a2*v - a3*a.
sp_step(K, o, acceleration, j, u, v, a) ==
  LET next(du) ==
        [u |-> du,
         v |-> Sub(Sub(Sub(Mul(K.a1, du), Mul(K.a4, u)), Mul(K.a2, v)), Mul(K.a5, a)),
         a |-> Sub(Sub(Sub(Mul(K.a0, du), Mul(K.a0, u)), Mul(K.a2, v)), Mul(K.a3, a))]
  IN  next(stepDu(K, o, acceleration, j, u, v, a))

\* utils.js newmarkBeta and analysis.js calculateResponseSpectra:
\* dv = a1*(du - u) - a4*v - a5*acc;  da = a0*(du - u) - a2*v - a3*acc.
newmark_step(K, o, acceleration, j, u, v, a) ==
  LET next(du) ==
        [u |-> du,
         v |-> Sub(Sub(Mul(K.a1, Sub(du, u)), Mul(K.a4, v)), Mul(K.a5, a)),
         a |-> Sub(Sub(Mul(K.a0, Sub(du, u)), Mul(K.a2, v)), Mul(K.a3, a))]
  IN  next(stepDu(K, o, acceleration, j, u, v, a))

Zeros(n) == [i \in 1..n |-> Zero]

\* u[j] = du; v[j] = dv; a[j] = da;
store(r, j, s) ==
  [u |-> [r.u EXCEPT ![j] = s.u], v |-> [r.v EXCEPT ![j] = s.v],
   a |-> [r.a EXCEPT ![j] = s.a]]

\* SD, PSV, PSA of one period: the largest |u|, |v|, |a|.
peaksOf(r) == [SD |-> maxAbs(r.u), PSV |-> maxAbs(r.v), PSA |-> maxAbs(r.a)]

\* The time loop of one period over arrays u, v, a filled with zeros:
\* for (j = 1; j < n; j++), on 1-based positions 2..n.
RECURSIVE sp_timeLoop(_, _, _, _, _)
sp_timeLoop(K, o, acceleration, j, r) ==
  IF j > Len(acceleration) THEN r
  ELSE sp_timeLoop(K, o, acceleration, j + 1,
         store(r, j, sp_step(K, o, acceleration, j, r.u[j - 1], r.v[j - 1], r.a[j - 1])))

RECURSIVE newmark_timeLoop(_, _, _, _, _)
newmark_timeLoop(K, o, acceleration, j, r) ==
  IF j > Len(acceleration) THEN r
  ELSE newmark_timeLoop(K, o, acceleration, j + 1,
         store(r, j, newmark_step(K, o, acceleration, j, r.u[j - 1], r.v[j - 1], r.a[j - 1])))

freshArrays(n) == [u |-> Zeros(n), v |-> Zeros(n), a |-> Zeros(n)]

\* utils.js newmarkBeta: no test of keff at all.
newmarkBeta(acceleration, dt, omega, zeta) ==
  LET K == newmarkConstants(dt)
      o == oscillator(K, omega, zeta)
  IN  newmark_timeLoop(K, o, acceleration, 2, freshArrays(Len(acceleration)))

\* The guard of SignalProcessor.calculateResponseSpectrum (also the GUI
\* analyzer's and the integrated processor's): keff === 0 || !isFinite(keff).
sp_degenerate(keff) == (IsFinite(keff) /\ Sgn(keff) = 0) \/ ~IsFinite(keff)

\* The guard of analysis.js calculateResponseSpectra: !isFinite(keff) || keff <= 0.
analysis_degenerate(keff) == ~IsFinite(keff) \/ Le(keff, Zero)

\* A degenerate period that is skipped without an entry.
pushNothing(S) == S

\* PSA.push(0); PSV.push(0); SD.push(0); continue;
pushZeros(S) ==
  [SD |-> Append(S.SD, Zero), PSV |-> Append(S.PSV, Zero), PSA |-> Append(S.PSA, Zero)]

emptySpectrum == [SD |-> <<>>, PSV |-> <<>>, PSA |-> <<>>]

\* SD.push(max |u|); PSV.push(max |v|); PSA.push(max |a|);
pushPeaks(S, r) ==
  [SD |-> Append(S.SD, maxAbs(r.u)), PSV |-> Append(S.PSV, maxAbs(r.v)),
   PSA |-> Append(S.PSA, maxAbs(r.a))]

\* SD[i] = max |u|; PSV[i] = max |v|; PSA[i] = max |a|;
storePeaks(S, i, r) ==
  [SD |-> [S.SD EXCEPT ![i] = maxAbs(r.u)], PSV |-> [S.PSV EXCEPT ![i] = maxAbs(r.v)],
   PSA |-> [S.PSA EXCEPT ![i] = maxAbs(r.a)]]

\* The period loop of SignalProcessor.calculateResponseSpectrum: a degenerate
\* period pushes three zeros and continues, any other pushes its three peaks.
RECURSIVE sp_periodLoop(_, _, _, _, _, _)
sp_periodLoop(acceleration, K, zeta, omegas, i, S) ==
  IF i > Len(omegas) THEN S
  ELSE LET period(o) ==
             IF sp_degenerate(o.keff) THEN pushZeros(S)
             ELSE pushPeaks(S, sp_timeLoop(K, o, acceleration, 2,
                                           freshArrays(Len(acceleration))))
       IN  sp_periodLoop(acceleration, K, zeta, omegas, i + 1,
                         period(oscillator(K, omegas[i], zeta)))

\* const dt = time[1] - time[0]
sp_dt(time) == Sub(At(time, 2), At(time, 1))

\* SignalProcessor.calculateResponseSpectrum(acceleration, time, dampingRatio)
calculateResponseSpectrum(acceleration, time, dampingRatio, omegas) ==
  sp_periodLoop(acceleration, newmarkConstants(sp_dt(time)), dampingRatio, omegas,
                1, emptySpectrum)

\* The period loop of analysis.js calculateResponseSpectra: SD, PSV and PSA are
\* allocated filled with zeros, one entry per period; a degenerate period is
\* skipped by continue, any other stores its peaks at its own index.
RECURSIVE analysis_periodLoop(_, _, _, _, _, _)
analysis_periodLoop(acceleration, K, zeta, omegas, i, S) ==
  IF i > Len(omegas) THEN S
  ELSE LET period(o) ==
             IF analysis_degenerate(o.keff) THEN S
             ELSE storePeaks(S, i, newmark_timeLoop(K, o, acceleration, 2,
                                                    freshArrays(Len(acceleration))))
       IN  analysis_periodLoop(acceleration, K, zeta, omegas, i + 1,
                               period(oscillator(K, omegas[i], zeta)))

\* const dt = time.length > 1 ? time[1] - time[0] : 0.01
analysis_dt(time) == IF Len(time) > 1 THEN Sub(time[2], time[1]) ELSE Rat(1, 100)

\* analysis.js calculateResponseSpectra(acceleration, time, periods, damping):
\* damping || this.options.dampingRatio replaces a damping of 0 by the default.
calculateResponseSpectra(acceleration, time, omegas, damping) ==
  LET zeta == IF damping = Zero \/ IsNaN(damping) THEN Rat(1, 20) ELSE damping
  IN  analysis_periodLoop(acceleration, newmarkConstants(analysis_dt(time)), zeta,
        omegas, 1,
        [SD |-> Zeros(Len(omegas)), PSV |-> Zeros(Len(omegas)),
         PSA |-> Zeros(Len(omegas))])

\* The integrated processor's step:
\* dv = a1*du - a1*u + a4*v + a5*acc;  da = a0*du - a0*u - a2*v - a3*acc.
integrated_step(K, o, acceleration, j, u, v, a) ==
  LET next(du) ==
        [u |-> du,
         v |-> Add(Add(Sub(Mul(K.a1, du), Mul(K.a1, u)), Mul(K.a4, v)), Mul(K.a5, a)),
         a |-> Sub(Sub(Sub(Mul(K.a0, du), Mul(K.a0, u)), Mul(K.a2, v)), Mul(K.a3, a))]
  IN  next(stepDu(K, o, acceleration, j, u, v, a))

RECURSIVE integrated_timeLoop(_, _, _, _, _)
integrated_timeLoop(K, o, acceleration, j, r) ==
  IF j > Len(acceleration) THEN r
  ELSE integrated_timeLoop(K, o, acceleration, j + 1,
         store(r, j, integrated_step(K, o, acceleration, j, r.u[j - 1], r.v[j - 1], r.a[j - 1])))

\* The period loop of the integrated processor: the guard of SignalProcessor,
\* tested before the arrays of the period are made.
RECURSIVE integrated_periodLoop(_, _, _, _, _, _)
integrated_periodLoop(acceleration, K, zeta, omegas, i, S) ==
  IF i > Len(omegas) THEN S
  ELSE LET period(o) ==
             IF sp_degenerate(o.keff) THEN pushZeros(S)
             ELSE pushPeaks(S, integrated_timeLoop(K, o, acceleration, 2,
                                                   freshArrays(Len(acceleration))))
       IN  integrated_periodLoop(acceleration, K, zeta, omegas, i + 1,
                                 period(oscillator(K, omegas[i], zeta)))

\* The integrated processor's calculateResponseSpectra(acceleration, dt,
\* dampingRatio, periods): dt is an argument.
integrated_calculateResponseSpectra(acceleration, dt, dampingRatio, omegas) ==
  integrated_periodLoop(acceleration, newmarkConstants(dt), dampingRatio, omegas, 1,
                        emptySpectrum)

\* ------------------------------------------------------------ pipeline
\* The result of an analysis is modelled without its site frequency, Arias
\* intensity and response spectrum (magnitudes and a factor pi that the exact
\* numbers above do not have), its dates and its summary.

DirectionNames == {"ns_acceleration", "ew_acceleration", "ud_acceleration"}

\* options.cornerFreq || 0.05, options.dampingRatio || 0.05,
\* options.bracketThreshold || 0.05, for options that set none of them.
defaultConfig ==
  [cornerFreq |-> Rat(1, 20), dampingRatio |-> Rat(1, 20), bracketThreshold |-> Rat(1, 20)]

\* record.processing_info?.sampling_interval || 0.01
samplingInterval(record) ==
  IF IsNaN(record.sampling_interval) \/ record.sampling_interval = Zero
  THEN Rat(1, 100) ELSE record.sampling_interval

\* The body of the loop over the directions in processEarthquakeData.
processDirection(acceleration, dt, fs, config) ==
  LET stored(filteredAcc, time, velocity, displacement, peakValues) ==
        [rawAcceleration |-> acceleration, processedAcceleration |-> filteredAcc,
         velocity |-> velocity, displacement |-> displacement, time |-> time,
         peakValues |-> peakValues,
         bracketedDuration |->
           calculateBracketedDuration(time, filteredAcc,
                                      Mul(config.bracketThreshold, peakValues.PGA)),
         processingConfig |-> config, samplingRate |-> fs, dataLength |-> Len(filteredAcc)]
      measured(filteredAcc, time, velocity, displacement) ==
        stored(filteredAcc, time, velocity, displacement,
               calculatePeakValues(filteredAcc, velocity, displacement))
      integrated(filteredAcc, time, velocity) ==
        measured(filteredAcc, time, velocity, cumtrapz(time, velocity).out)
      timed(filteredAcc, time) ==
        integrated(filteredAcc, time, cumtrapz(time, filteredAcc).out)
      filtered(filteredAcc) ==
        timed(filteredAcc, generateTimeArray(dt, Len(filteredAcc)))
  IN  filtered(sp_highPassFilter(acceleration, fs, config.cornerFreq).out)

NoResult == [none |-> TRUE]

Settled(error, result) == [error |-> error, result |-> result]

\* MatlabProcessor.processEarthquakeData from the record that findOne gave to
\* the call of updateOne: dt and fs are locals.
processEarthquakeData(self, found, record, recordId) ==
  IF ~found THEN [self |-> self, outcome |-> Settled("Record not found", NoResult)]
  ELSE LET config == defaultConfig
           present == {d \in DirectionNames : Len(record.data[d]) > 0}
           sampled(dt, fs) ==
             [self |-> self,
              outcome |-> Settled("none",
                [recordId |-> recordId,
                 matlabAnalysis |->
                   [d \in present |-> processDirection(record.data[d], dt, fs, config)],
                 processingConfig |-> config])]
       IN  sampled(samplingInterval(record), Div(One, samplingInterval(record)))

\* EarthquakeAnalyzer.analyzeEarthquakeRecord (earthquakeAnalysis.js) over the
\* same stretch: the sampling interval and rate are written to this.dt and
\* this.fs and read back from there.
analyzeEarthquakeRecord(self, found, record, recordId, direction) ==
  IF ~found THEN [self |-> self, outcome |-> Settled("Record not found", NoResult)]
  ELSE IF Len(record.data[direction]) = 0
  THEN [self |-> self, outcome |-> Settled("No acceleration data", NoResult)]
  ELSE LET acc == record.data[direction]
           compiled(this, series, PGA_pre) ==
             [self |-> this,
              outcome |-> Settled("none",
                [recordId |-> recordId, direction |-> direction,
                 rawData |-> [acceleration |-> acc, velocity |-> series.velocity,
                              displacement |-> series.displacement,
                              time |-> series.time,
                              PGA |-> maxAbs(acc), PGV |-> maxAbs(series.velocity),
                              PGD |-> maxAbs(series.displacement)],
                 preprocessedData |-> [acceleration |-> series.preprocessacc,
                                       velocity |-> series.preprocessvelocity,
                                       displacement |-> series.preprocessdisplacement,
                                       time |-> series.preprocesstime, PGA |-> PGA_pre,
                                       PGV |-> maxAbs(series.preprocessvelocity),
                                       PGD |-> maxAbs(series.preprocessdisplacement)],
                 bracketedDuration |->
                   calculateBracketedDuration(series.preprocesstime, series.preprocessacc,
                                              Mul(Rat(1, 20), PGA_pre)),
                 processingConfig |-> [cornerFreq |-> this.defaultCornerFreq,
                                       dampingRatio |-> Rat(1, 20),
                                       samplingRate |-> this.fs,
                                       samplingInterval |-> this.dt]])]
           integrated(this, preprocessacc, preprocesstime, time, velocity,
                      preprocessvelocity) ==
             compiled(this,
                      [preprocessacc |-> preprocessacc, preprocesstime |-> preprocesstime,
                       time |-> time, velocity |-> velocity,
                       displacement |-> cumtrapz(time, velocity).out,
                       preprocessvelocity |-> preprocessvelocity,
                       preprocessdisplacement |->
                         cumtrapz(preprocesstime, preprocessvelocity).out],
                      maxAbs(preprocessacc))
           timed(this, preprocessacc, preprocesstime, time) ==
             integrated(this, preprocessacc, preprocesstime, time,
                        cumtrapz(time, acc).out,
                        cumtrapz(preprocesstime, preprocessacc).out)
           preprocessed(this, preprocessacc) ==
             timed(this, preprocessacc, generateTimeArray(this.dt, Len(preprocessacc)),
                   generateTimeArray(this.dt, Len(acc)))
           sampled(this) ==
             preprocessed(this, sp_highPassFilter(acc, this.fs,
                                                  this.defaultCornerFreq).out)
       IN  sampled([self EXCEPT !.dt = samplingInterval(record),
                                !.fs = Div(One, samplingInterval(record))])

\* new EarthquakeAnalyzer(mongoUri) / new MatlabProcessor(mongoUri)
constructed(cls) ==
  IF cls = "EarthquakeAnalyzer"
  THEN [cls |-> cls, defaultCornerFreq |-> Rat(1, 20), defaultDampingRatio |-> Rat(1, 20),
        dt |-> Rat(1, 100), fs |-> Num(100)]
  ELSE [cls |-> cls]

\* From the resolution of findOne to the next await, on the instance self.
analysisBy(self, found, record, recordId, direction) ==
  IF self.cls = "EarthquakeAnalyzer"
  THEN analyzeEarthquakeRecord(self, found, record, recordId, direction)
  ELSE processEarthquakeData(self, found, record, recordId)

\* ------------------------------------------------------- data preprocessing
\* The raw data of an event is modelled by what the preprocessing pipeline
\* finds in it: basic is what validateBasicData sees ("none": no data object,
\* "noArrays": a field that is no array, "mismatch": arrays of different
\* lengths, "short": fewer than minDataPoints points, "mismatchShort": both,
\* "valid"), throwsAt the step (2 to 7) in which an exception is thrown, or 0,
\* and final what is left in the series when steps 2 to 4 have run ("valid",
\* "invalid": null or NaN values remain, "extreme": values beyond 1.5 x
\* maxAcceleration remain, "both").

\* validateBasicData(data): isValid is errors.length === 0 wherever it returns.
validateBasicData(data) ==
  LET report(errors) == [isValid |-> errors = <<>>, errors |-> errors]
  IN  CASE data.basic = "none" -> report(<<"No data object provided">>)
        [] data.basic = "noArrays" -> report(<<"Time array missing or invalid">>)
        [] data.basic = "mismatch" -> report(<<"Array length mismatch">>)
        [] data.basic = "short" -> report(<<"Insufficient data points">>)
        [] data.basic = "mismatchShort" ->
             report(<<"Array length mismatch", "Insufficient data points">>)
        [] data.basic = "valid" -> report(<<>>)

\* validateProcessedData(data): one error for the invalid values that remain,
\* one for the extreme values.
validateProcessedData(data) ==
  LET report(errors) == [isValid |-> errors = <<>>, errors |-> errors]
  IN  CASE data.final = "valid" -> report(<<>>)
        [] data.final = "invalid" ->
             report(<<"invalid values remain after preprocessing">>)
        [] data.final = "extreme" -> report(<<"Extreme values detected">>)
        [] data.final = "both" ->
             report(<<"invalid values remain after preprocessing",
                      "Extreme values detected">>)

\* The results object with processedData set, whatever the validation said.
preprocessing_alwaysData(steps, errors) ==
  [processedData |-> "baselineResult.data", steps |-> steps, errors |-> errors]

\* The results object with processedData still null: a validation that fails
\* pushes its errors, an exception pushes one error from the catch block.
preprocessing_failed(steps, errors) ==
  [processedData |-> "null", steps |-> steps, errors |-> errors]

\* DataPreprocessor.preprocessEarthquakeData(rawData): a step is pushed when
\* its function has returned; an exception leaves the steps pushed so far.
preprocessEarthquakeData(rawData) ==
  LET names == <<"Basic validation", "Missing data handling",
                 "Outlier detection and correction", "Baseline correction",
                 "Quality assessment", "Sampling rate validation",
                 "Final validation">>
  IN  IF ~validateBasicData(rawData).isValid
      THEN preprocessing_failed(SubSeq(names, 1, 1), validateBasicData(rawData).errors)
      ELSE IF rawData.throwsAt # 0
      THEN preprocessing_failed(SubSeq(names, 1, rawData.throwsAt - 1),
                                <<"Preprocessing pipeline error">>)
      ELSE IF validateProcessedData(rawData).isValid
      THEN [processedData |-> "baselineResult.data", steps |-> names, errors |-> <<>>]
      ELSE preprocessing_failed(names, validateProcessedData(rawData).errors)

\* processEarthquakeFilesWithPreprocessing(fileBasePath) of the import script:
\* throws when no file of the event could be parsed or when the preprocessing
\* reports errors, and returns processedData.data otherwise.
processEarthquakeFilesWithPreprocessing(files) ==
  IF ~files.parsed
  THEN [err |-> "No valid ASC files found", preprocessing |-> preprocessing_failed(<<>>, <<>>),
        ran |-> FALSE]
  ELSE LET checked(preprocessingResult) ==
             [err |-> IF Len(preprocessingResult.errors) > 0
                      THEN "Data preprocessing failed" ELSE "none",
              preprocessing |-> preprocessingResult, ran |-> TRUE]
       IN  checked(preprocessEarthquakeData(files.rawData))

\* ------------------------------------------------------ caller's arrays
\* An array in use by a call next to the array the caller passed: work is
\* the array the call writes to, caller the caller's array, and same says
\* that the two are one object, so that a write to work is a write to caller.

\* The array is the caller's own: no copy is taken.
spread_aliased(signal) == [caller |-> signal, work |-> signal, same |-> TRUE]

\* signal.map(...), [...signal]: a new array with the elements of signal.
spread(signal) == [caller |-> signal, work |-> signal, same |-> FALSE]

\* The arrays when fft hands its working array to the recursion: utils.js
\* and SignalProcessor take a copy and push zeros onto it while it is shorter
\* than the next power of two; filters.js converts and does not pad.  A push
\* onto an array that is the caller's own would lengthen the caller's array.
fftArrays(impl, signal) ==
  LET grown(arrays, padded) ==
        [arrays EXCEPT !.work = padded,
                       !.caller = IF arrays.same THEN padded ELSE arrays.caller]
      pushUntil(arrays, n) ==
        grown(arrays, [i \in 1..n |-> IF i <= Len(arrays.work) THEN arrays.work[i]
                                      ELSE Zero])
  IN  IF Len(signal) <= 1 \/ impl = "filters" THEN spread(signal)
      ELSE pushUntil(spread(signal), NextPow2(Len(signal)))

\* The loop of filters.js filter over the samples: the delay line w is
\* shifted, w[0] = x[n] - sum aNorm[i] w[i], y[n] = sum bNorm[i] w[i].
RECURSIVE filterLoop(_, _, _, _, _)
filterLoop(bNorm, aNorm, x, w, y) ==
  IF Len(y) >= Len(x) THEN y
  ELSE LET put(fed) ==
             filterLoop(bNorm, aNorm, x, fed,
                        Append(y, SumFrom([i \in 1..(IF Len(bNorm) < Len(w) THEN Len(bNorm)
                                                     ELSE Len(w)) |->
                                             Mul(bNorm[i], fed[i])], 1)))
           feed(shifted) ==
             put([shifted EXCEPT ![1] =
                    Sub(shifted[1],
                        SumFrom([i \in 1..Len(aNorm) |->
                                   IF i = 1 \/ i > Len(w) THEN Zero
                                   ELSE Mul(aNorm[i], shifted[i])], 1))])
       IN  feed([i \in 1..Len(w) |-> IF i = 1 THEN x[Len(y) + 1] ELSE w[i - 1]])

\* filters.js filter(b, a, x), direct form II, coefficients normalised by
\* a[0]; y is a new array.
filter(b, a, x) ==
  filterLoop([i \in 1..Len(b) |-> Div(b[i], a[1])],
             [i \in 1..Len(a) |-> Div(a[i], a[1])], x,
             [i \in 1..(IF Len(b) > Len(a) THEN Len(b) ELSE Len(a)) |-> Zero], <<>>)

\* filters.js filtfilt(b, a, x): filter, reverse, filter, reverse; every y is
\* the array filter made, and y.reverse() turns that array in place.
filtfilt(b, a, x) ==
  LET reverse(arrays) ==
        [arrays EXCEPT
           !.work = [i \in 1..Len(arrays.work) |-> arrays.work[Len(arrays.work) + 1 - i]],
           !.caller = IF arrays.same
                      THEN [i \in 1..Len(arrays.work) |->
                              arrays.work[Len(arrays.work) + 1 - i]]
                      ELSE arrays.caller]
      made(y) == [caller |-> x, work |-> y, same |-> FALSE]
      backward(arrays) == reverse(made(filter(b, a, arrays.work)))
  IN  backward(reverse(made(filter(b, a, x))))

\* ================================================================ state
\* call: the library call made last, with its arguments and what it returned
\*       or threw (res.err = "none" for a normal return).

VARIABLES
  call,      \* the library call being made, with its arguments and its result
  sweep,     \* a response-spectrum sweep whose periods are processed as tasks
  analyzer,  \* the fields of the one analyzer/processor instance
  client,    \* the instance's MongoClient
  stored,    \* the analyses written to the acceleration_records collection
  inv        \* the invocations of the pipeline on the instance

vars == <<call, sweep, analyzer, client, stored, inv>>

pipelineVars == <<analyzer, client, stored, inv>>

\* ---------------------------------------------------------------- bounds

MaxLen == 4

SampleVals == {Num(-1), Num(0), Num(2)}

SeqsUpTo(S, n) == UNION {[1..k -> S] : k \in 0..n}

\* The end-to-end series of the specification, [0,0,0,10,-10,0,0,0].
endToEndSeries ==
  <<Num(0), Num(0), Num(0), Num(10), Num(-10), Num(0), Num(0), Num(0)>>

\* Every short series, and two of length 8, where the transform has the
\* twiddle factors of modulus sqrt(2)/2.
DataSeqs ==
  SeqsUpTo(SampleVals, MaxLen)
    \cup {endToEndSeries,
          <<Num(2), Num(-1), Num(0), Num(0), Num(-1), Num(2), Num(0), Num(-1)>>}

\* <<fs, fc>> pairs: fc below, at and above the Nyquist frequency fs/2, and
\* the non-positive values of either.
FilterConfigs ==
  {<<Num(4), Num(1)>>, <<Num(4), Num(2)>>, <<Num(4), Num(3)>>, <<Num(4), Num(0)>>,
   <<Num(4), Num(-1)>>, <<Num(0), Num(1)>>, <<Num(-4), Num(1)>>, <<Num(0), Num(0)>>}

\* The library is synchronous; calls are made one at a time, from the idle state.
Idle == [op |-> "none"]

NoSweep == [phase |-> "idle"]

\* Before new EarthquakeAnalyzer(mongoUri) / new MatlabProcessor(mongoUri).
NotConstructed == [cls |-> "none"]

NoClient == [connected |-> FALSE]

NoInvocation == [pc |-> "idle"]

NoAnalysis == [saved |-> FALSE]

\* Two invocations may be in progress on the instance.
Slots == {1, 2}

StoredIds == {"fixture", "short", "empty"}

Init ==
  /\ call = Idle
  /\ sweep = NoSweep
  /\ analyzer = NotConstructed
  /\ client = NoClient
  /\ stored = [id \in StoredIds |-> NoAnalysis]
  /\ inv = [k \in Slots |-> NoInvocation]

\* --------------------------------------------------- transform operations

fftBy(impl, x) == IF impl = "filters" THEN filters_fft(x) ELSE fft(x)

ifftBy(impl, X) == IF impl = "utils" THEN ifft(X) ELSE sp_ifft(X)

\* The mask a high-pass call builds and the number of bins of the spectrum it
\* multiplies with it: utils.js and SignalProcessor take N off the padded
\* spectrum, filters.js and the integrated processor off the detrended series.
hpFilterBy(impl, data, fs, fc) ==
  LET made(N, bins, mask) == [bins |-> bins, mask |-> symmetrize(mask, symStart(N), N)]
      padded(n) ==
        [bins |-> n, mask |-> symmetrize(maskGe(n, n, fs, fc), (n \div 2) + 1, n)]
  IN  CASE impl \in {"utils", "sp"} -> padded(Len(fft(detrend(data)).out))
        [] impl = "filters" ->
             made(Len(data), Len(data), maskNotLt(Len(data), Len(data), fs, fc))
        [] impl = "integrated" ->
             made(Len(data), Len(fft(integrated_detrend(data)).out),
                  maskGe(Len(data), Len(data), fs, fc))

highPassBy(impl, data, fs, fc) ==
  CASE impl = "utils" -> highPassFilter(data, fs, fc)
    [] impl = "sp" -> sp_highPassFilter(data, fs, fc)
    [] impl = "filters" -> preprocessBoore(data, fs, fc)
    [] impl = "integrated" -> integrated_preprocessBoore(data, fs, fc)

\* forward(x), by utils.js fft, SignalProcessor.fft or filters.js fft; after
\* holds the caller's array and the padded working array when it returns.
Fft(impl, x) ==
  /\ call.op = "none"
  /\ call' = [op |-> "fft", impl |-> impl, x |-> x, res |-> fftBy(impl, x),
              after |-> fftArrays(impl, x)]
  /\ UNCHANGED <<sweep, pipelineVars>>

\* inverse(X) of the spectrum the last forward call returned.
Ifft(impl) ==
  /\ call.op = "fft"
  /\ call.res.err = "none"
  /\ call' = [op |-> "ifft", impl |-> impl, x |-> call.x, X |-> call.res.out,
              res |-> ifftBy(impl, call.res.out)]
  /\ UNCHANGED <<sweep, pipelineVars>>

\* highPass(data, fs, fc) by one of the four implementations.
HighPass(impl, data, cfg) ==
  /\ call.op = "none"
  /\ call' = [op |-> "highPass", impl |-> impl, data |-> data, fs |-> cfg[1],
              fc |-> cfg[2], res |-> highPassBy(impl, data, cfg[1], cfg[2]),
              filter |-> hpFilterBy(impl, data, cfg[1], cfg[2])]
  /\ UNCHANGED <<sweep, pipelineVars>>

\* Numerator and denominator coefficients of first-order sections.
Coefficients == {<<Num(1), Num(-1)>>, <<Num(2), Num(1)>>, <<Num(1)>>}

\* filtfilt(b, a, x) of filters.js.
Filtfilt(b, a, x) ==
  /\ call.op = "none"
  /\ call' = [op |-> "filtfilt", x |-> x, b |-> b, a |-> a,
              after |-> filtfilt(b, a, x)]
  /\ UNCHANGED <<sweep, pipelineVars>>

\* The caller takes the result: the library is synchronous, one call at a time.
Return ==
  /\ call.op # "none"
  /\ call' = Idle
  /\ UNCHANGED <<sweep, pipelineVars>>

TransformNext ==
  \/ \E impl \in {"utils", "sp", "filters"}, x \in DataSeqs : Fft(impl, x)
  \/ \E b \in Coefficients, a \in Coefficients, x \in SeqsUpTo(SampleVals, MaxLen) :
        Filtfilt(b, a, x)
  \/ \E impl \in {"utils", "sp"} : Ifft(impl)
  \/ \E impl \in {"utils", "sp", "filters", "integrated"}, data \in DataSeqs,
        cfg \in FilterConfigs : HighPass(impl, data, cfg)
  \/ Return

SpecTransform == Init /\ [][TransformNext]_vars

\* -------------------------------------------------- integration calls

MaxTLen == 3

TimeSeqs == SeqsUpTo({Num(0), Num(1), Num(2)}, MaxTLen)

ValueSeqs == SeqsUpTo({Num(0), Num(1), Num(-2)}, MaxTLen)

\* cumulativeTrapezoid(time, values) by utils.js cumtrapz.
Cumtrapz(time, values) ==
  /\ call.op = "none"
  /\ call' = [op |-> "cumtrapz", impl |-> "utils", time |-> time, values |-> values,
              res |-> cumtrapz(time, values)]
  /\ UNCHANGED <<sweep, pipelineVars>>

\* trapezoid(time, values) by utils.js trapz or the integrated processor's.
Trapz(impl, time, values) ==
  /\ call.op = "none"
  /\ call' = [op |-> "trapz", impl |-> impl, time |-> time, values |-> values,
              res |-> IF impl = "utils" THEN trapz(time, values)
                      ELSE integrated_trapz(time, values)]
  /\ UNCHANGED <<sweep, pipelineVars>>

IntegrateNext ==
  \/ \E time \in TimeSeqs, values \in ValueSeqs : Cumtrapz(time, values)
  \/ \E impl \in {"utils", "integrated"}, time \in TimeSeqs, values \in ValueSeqs :
        Trapz(impl, time, values)
  \/ Return

SpecIntegrate == Init /\ [][IntegrateNext]_vars

\* ------------------------------------------------ response spectrum calls

MaxSamples == 3

MaxGrid == 2

AccelSeqs == SeqsUpTo({Num(0), Num(1)}, MaxSamples)

SeqsFrom(S, lo, hi) == UNION {[1..k -> S] : k \in lo..hi}

\* The grid of SignalProcessor.calculateResponseSpectrum is fixed, 0.01 s to
\* 10 s: every omega is finite and positive.  analysis.js and the integrated
\* processor take the periods as an argument, so a period of 0 (omega =
\* Infinity) can be asked for.
FixedGrids == SeqsFrom({Num(1), Num(2)}, 1, MaxGrid)

GivenGrids == SeqsFrom({Num(1), Num(2), PInf}, 1, MaxGrid)

DtVals == {Num(0), Num(2)}

ZetaVals == {Num(-2), Num(-1), Num(1)}

\* SignalProcessor and analysis.js take the time vector and read dt off it,
\* the integrated processor takes dt.
spectrumBy(impl, acceleration, time, dt, zeta, omegas) ==
  CASE impl = "sp" -> calculateResponseSpectrum(acceleration, time, zeta, omegas)
    [] impl = "analysis" -> calculateResponseSpectra(acceleration, time, omegas, zeta)
    [] impl = "integrated" ->
         integrated_calculateResponseSpectra(acceleration, dt, zeta, omegas)

\* The dt the sweep of impl works with.
dtBy(impl, time, dt) ==
  CASE impl = "sp" -> sp_dt(time)
    [] impl = "analysis" -> analysis_dt(time)
    [] impl = "integrated" -> dt

\* computeSpectrum on a recording sampled every dt, by SignalProcessor
\* (processWithMatlab.js), analysis.js or the integrated processor.
Spectrum(impl, acceleration, dt, zeta, omegas) ==
  /\ call.op = "none"
  /\ LET time == generateTimeArray(dt, Len(acceleration))
     IN  call' = [op |-> "spectrum", impl |-> impl, acceleration |-> acceleration,
                  time |-> time, dt |-> dt, zeta |-> zeta, omegas |-> omegas,
                  res |-> spectrumBy(impl, acceleration, time, dt, zeta, omegas)]
  /\ UNCHANGED <<sweep, pipelineVars>>

SpectrumNext ==
  \/ \E acceleration \in AccelSeqs, dt \in DtVals, zeta \in ZetaVals,
        omegas \in FixedGrids : Spectrum("sp", acceleration, dt, zeta, omegas)
  \/ \E impl \in {"analysis", "integrated"}, acceleration \in AccelSeqs,
        dt \in DtVals, zeta \in ZetaVals, omegas \in GivenGrids :
        Spectrum(impl, acceleration, dt, zeta, omegas)
  \/ Return

SpecSpectrum == Init /\ [][SpectrumNext]_vars

\* ------------------------------------------- the periods of a sweep as tasks
\* The body of the period loop is run once per period.  Here the periods of a
\* grid are tasks that are started in any order and whose time steps
\* interleave in any way; each task has the arrays u, v, a its period
\* allocates and reads the acceleration, the constants and the damping ratio of
\* the sweep.

SweepAccels == {<<Num(0), Num(1)>>, <<Num(1), Num(0), Num(1)>>}

SweepZetas == {Num(-1), Num(1)}

NoPeaks == [SD |-> Zero, PSV |-> Zero, PSA |-> Zero]

NewTask == [pc |-> "new", j |-> 0, r |-> freshArrays(0), out |-> NoPeaks]

stepBy(impl, K, o, acceleration, j, u, v, a) ==
  IF impl = "sp" THEN sp_step(K, o, acceleration, j, u, v, a)
  ELSE integrated_step(K, o, acceleration, j, u, v, a)

\* One set of arrays u, v, a for all the periods.
sharedArrays(task, i) == task[1].r

\* The arrays u, v, a of period i: its own.
arraysOf(task, i) == task[i].r

sweepConstants == newmarkConstants(dtBy(sweep.impl, sweep.time, sweep.dt))

StartSweep(impl, acceleration, dt, zeta, omegas) ==
  /\ sweep.phase = "idle"
  /\ sweep' = [phase |-> "running", impl |-> impl, acceleration |-> acceleration,
               time |-> generateTimeArray(dt, Len(acceleration)), dt |-> dt,
               zeta |-> zeta, omegas |-> omegas,
               task |-> [i \in 1..Len(omegas) |-> NewTask]]
  /\ UNCHANGED <<call, pipelineVars>>

\* omega, m, k, c, keff and the guard; then the arrays of the period.
BeginPeriod(i) ==
  /\ sweep.phase = "running"
  /\ i \in 1..Len(sweep.omegas)
  /\ sweep.task[i].pc = "new"
  /\ LET begin(o) ==
           sweep' = [sweep EXCEPT !.task[i] =
                     IF sp_degenerate(o.keff)
                     THEN [pc |-> "done", j |-> 0, r |-> freshArrays(0), out |-> NoPeaks]
                     ELSE [pc |-> "stepping", j |-> 2,
                           r |-> freshArrays(Len(sweep.acceleration)), out |-> NoPeaks]]
     IN  begin(oscillator(sweepConstants, sweep.omegas[i], sweep.zeta))
  /\ UNCHANGED <<call, pipelineVars>>

\* One pass of the time loop of period i.
StepPeriod(i) ==
  /\ sweep.phase = "running"
  /\ i \in 1..Len(sweep.omegas)
  /\ sweep.task[i].pc = "stepping"
  /\ sweep.task[i].j <= Len(sweep.acceleration)
  /\ LET pass(K, o, j, r) ==
           store(r, j, stepBy(sweep.impl, K, o, sweep.acceleration, j,
                              r.u[j - 1], r.v[j - 1], r.a[j - 1]))
     IN  sweep' = [sweep EXCEPT
                     !.task[i].j = @ + 1,
                     !.task[i].r = pass(sweepConstants,
                                        oscillator(sweepConstants, sweep.omegas[i],
                                                   sweep.zeta),
                                        sweep.task[i].j, arraysOf(sweep.task, i))]
  /\ UNCHANGED <<call, pipelineVars>>

\* The peaks of period i, once its time loop is over.
FinishPeriod(i) ==
  /\ sweep.phase = "running"
  /\ i \in 1..Len(sweep.omegas)
  /\ sweep.task[i].pc = "stepping"
  /\ sweep.task[i].j > Len(sweep.acceleration)
  /\ sweep' = [sweep EXCEPT !.task[i].pc = "done",
                             !.task[i].out = peaksOf(arraysOf(sweep.task, i))]
  /\ UNCHANGED <<call, pipelineVars>>

EndSweep ==
  /\ sweep.phase = "running"
  /\ \A i \in 1..Len(sweep.omegas) : sweep.task[i].pc = "done"
  /\ sweep' = NoSweep
  /\ UNCHANGED <<call, pipelineVars>>

PeriodsNext ==
  \/ \E acceleration \in SweepAccels, zeta \in SweepZetas, omegas \in FixedGrids :
        StartSweep("sp", acceleration, Num(2), zeta, omegas)
  \/ \E acceleration \in SweepAccels, zeta \in SweepZetas, omegas \in GivenGrids :
        StartSweep("integrated", acceleration, Num(2), zeta, omegas)
  \/ \E i \in 1..MaxGrid : BeginPeriod(i)
  \/ \E i \in 1..MaxGrid : StepPeriod(i)
  \/ \E i \in 1..MaxGrid : FinishPeriod(i)
  \/ EndSweep

SpecPeriods == Init /\ [][PeriodsNext]_vars

\* --------------------------------------------- the pipeline on an instance
\* An invocation runs from one await to the next without interruption; at
\* connect, findOne, updateOne and close it is suspended and the other
\* invocation may run.

\* The spec's end-to-end series, sampled every 0.01 s, a second record
\* sampled every 0.02 s, and a record whose three series are all empty.
Records ==
  [fixture |->
     [sampling_interval |-> Rat(1, 100),
      data |-> [ns_acceleration |-> endToEndSeries,
                ew_acceleration |-> <<>>, ud_acceleration |-> <<>>]],
   short |->
     [sampling_interval |-> Rat(1, 50),
      data |-> [ns_acceleration |-> <<Num(1), Num(-1), Num(2), Num(0)>>,
                ew_acceleration |-> <<Num(0), Num(2)>>, ud_acceleration |-> <<>>]],
   empty |->
     [sampling_interval |-> Rat(1, 100),
      data |-> [ns_acceleration |-> <<>>, ew_acceleration |-> <<>>,
                ud_acceleration |-> <<>>]]]

RecordIds == StoredIds \cup {"absent"}

\* collection.findOne({_id: recordId}): the record, or null.
findOne(recordId) ==
  IF recordId \in StoredIds THEN Records[recordId] ELSE Records.fixture

Construct(cls) ==
  /\ analyzer.cls = "none"
  /\ analyzer' = constructed(cls)
  /\ client' = NoClient
  /\ UNCHANGED <<call, sweep, stored, inv>>

\* analyzeEarthquakeRecord(recordId, {direction}) / processEarthquakeData(recordId)
\* up to await this.client.connect().
Invoke(k, recordId, direction) ==
  /\ analyzer.cls # "none"
  /\ analyzer.cls = "MatlabProcessor" => direction = "ns_acceleration"
  /\ inv[k].pc = "idle"
  /\ inv' = [inv EXCEPT ![k] = [pc |-> "connect", recordId |-> recordId,
                               direction |-> direction, error |-> "none",
                               result |-> NoResult]]
  /\ UNCHANGED <<call, sweep, analyzer, client, stored>>

\* connect() taken for done on a client that an earlier call connected.
ConnectSkipped(k) ==
  /\ inv[k].pc = "connect"
  /\ inv' = [inv EXCEPT ![k].pc = "findOne"]
  /\ UNCHANGED <<call, sweep, analyzer, client, stored>>

\* connect() resolves; db, collection, and findOne is called.
ConnectDone(k) ==
  /\ inv[k].pc = "connect"
  /\ client' = [connected |-> TRUE]
  /\ inv' = [inv EXCEPT ![k].pc = "findOne"]
  /\ UNCHANGED <<call, sweep, analyzer, stored>>

\* findOne resolves; the analysis runs up to await collection.updateOne(...),
\* or throws and runs up to await this.client.close() of the finally block.
FindDone(k) ==
  /\ inv[k].pc = "findOne"
  /\ LET settle(r) ==
           /\ analyzer' = r.self
           /\ inv' = [inv EXCEPT ![k].pc = IF r.outcome.error = "none" THEN "updateOne"
                                           ELSE "close",
                                 ![k].error = r.outcome.error,
                                 ![k].result = r.outcome.result]
     IN  settle(analysisBy(analyzer, inv[k].recordId \in StoredIds,
                           findOne(inv[k].recordId), inv[k].recordId, inv[k].direction))
  /\ UNCHANGED <<call, sweep, client, stored>>

\* An operation that is pending on the client when the client is closed, or
\* is called on a closed client, is rejected by the driver or is carried out
\* on a connection the driver opens again: both are outcomes.
OperationFails(k) ==
  /\ inv[k].pc \in {"findOne", "updateOne"}
  /\ ~client.connected
  /\ inv' = [inv EXCEPT ![k].pc = "close", ![k].error = "MongoError",
                        ![k].result = NoResult]
  /\ UNCHANGED <<call, sweep, analyzer, client, stored>>

\* updateOne resolves: the analysis is in the collection; the return value is
\* ready and the finally block calls close().
UpdateDone(k) ==
  /\ inv[k].pc = "updateOne"
  /\ stored' = [stored EXCEPT ![inv[k].recordId] =
                  [saved |-> TRUE, by |-> analyzer.cls, direction |-> inv[k].direction,
                   analysis |-> inv[k].result]]
  /\ inv' = [inv EXCEPT ![k].pc = "close"]
  /\ UNCHANGED <<call, sweep, analyzer, client>>

\* close() resolves: the client of the instance is closed, and the invocation
\* returns its result or rethrows its error.
CloseDone(k) ==
  /\ inv[k].pc = "close"
  /\ client' = [connected |-> FALSE]
  /\ inv' = [inv EXCEPT ![k].pc = "done"]
  /\ UNCHANGED <<call, sweep, analyzer, stored>>

PipelineNext ==
  \/ \E cls \in {"EarthquakeAnalyzer", "MatlabProcessor"} : Construct(cls)
  \/ \E k \in Slots, recordId \in RecordIds,
        direction \in {"ns_acceleration", "ew_acceleration"} :
        Invoke(k, recordId, direction)
  \/ \E k \in Slots : ConnectDone(k)
  \/ \E k \in Slots : FindDone(k)
  \/ \E k \in Slots : OperationFails(k)
  \/ \E k \in Slots : UpdateDone(k)
  \/ \E k \in Slots : CloseDone(k)

SpecPipeline == Init /\ [][PipelineNext]_vars

\* ----------------------------------------------------------- detrending

detrendBy(impl, data) ==
  CASE impl = "utils" -> detrend(data)
    [] impl = "filters" -> filters_detrend(data)
    [] impl = "array_utils" -> arrayUtils_detrend(data)
    [] impl = "integrated" -> integrated_detrend(data)

\* detrend(data) by one of the implementations.
Detrend(impl, data) ==
  /\ call.op = "none"
  /\ call' = [op |-> "detrend", impl |-> impl, data |-> data,
              res |-> detrendBy(impl, data)]
  /\ UNCHANGED <<sweep, pipelineVars>>

\* detrend of the series the last detrend returned.
DetrendAgain ==
  /\ call.op = "detrend"
  /\ call' = [op |-> "detrendAgain", impl |-> call.impl, data |-> call.data,
              once |-> call.res, res |-> detrendBy(call.impl, call.res)]
  /\ UNCHANGED <<sweep, pipelineVars>>

DetrendNext ==
  \/ \E impl \in {"utils", "filters", "array_utils", "integrated"}, data \in DataSeqs :
        Detrend(impl, data)
  \/ DetrendAgain
  \/ Return

SpecDetrend == Init /\ [][DetrendNext]_vars

\* --------------------------------------------------- intensity measures

MaxAccLen == 4

BracketAccels == SeqsUpTo(SampleVals, MaxAccLen)

\* A series of five samples, which the transform pads to eight, with more
\* energy in bin 1 than in the DC bin.
fiveSamples == <<Num(2), Num(0), Num(-1), Num(-1), Num(-1)>>

\* threshold ratios: none, the default 0.05, one half, the whole PGA, twice
\* the PGA.
Ratios == {Num(0), Rat(1, 20), Rat(1, 2), Num(1), Num(2)}

IntensityDts == {Rat(1, 100), Num(2)}

\* The three implementations behind their call sites: the caller of
\* SignalProcessor and of analysis.js passes ratio x PGA, the integrated
\* processor takes the ratio.
\* The threshold taken at twice the ratio asked for.
bracketBy_doubled(impl, time, acceleration, ratio) ==
  IF impl = "sp"
  THEN calculateBracketedDuration(time, acceleration,
                                  Mul(Mul(Num(2), ratio), maxAbs(acceleration)))
  ELSE IF impl = "analysis"
  THEN analysis_calculateBracketedDuration(acceleration, time,
                                           Mul(Mul(Num(2), ratio), maxAbs(acceleration)))
  ELSE integrated_calculateBracketedDuration(acceleration, time, Mul(Num(2), ratio))

bracketBy(impl, time, acceleration, ratio) ==
  IF impl = "sp"
  THEN calculateBracketedDuration(time, acceleration, Mul(ratio, maxAbs(acceleration)))
  ELSE IF impl = "analysis"
  THEN analysis_calculateBracketedDuration(acceleration, time,
                                           Mul(ratio, maxAbs(acceleration)))
  ELSE integrated_calculateBracketedDuration(acceleration, time, ratio)

BracketedDuration(impl, acceleration, dt, ratio) ==
  /\ call.op = "none"
  /\ call' = [op |-> "bracketedDuration", impl |-> impl, acceleration |-> acceleration,
              time |-> generateTimeArray(dt, Len(acceleration)), ratio |-> ratio,
              res |-> bracketBy(impl, generateTimeArray(dt, Len(acceleration)),
                                acceleration, ratio)]
  /\ UNCHANGED <<sweep, pipelineVars>>

\* The spectrum the implementation looks at, and the dominant bin it reports.
siteFrequencyBy(impl, acceleration, fs) ==
  IF impl = "sp" THEN Returned(findSiteFrequency(acceleration, fs))
  ELSE IF impl = "gui" THEN Returned(gui_findSiteFrequency(acceleration, fs))
  ELSE IF impl = "integrated"
  THEN Returned(integrated_calculateSiteFrequency(acceleration, fs))
  ELSE findDominantFrequency(acceleration, fs)

SiteFrequency(impl, acceleration, fs) ==
  /\ call.op = "none"
  /\ call' = [op |-> "siteFrequency", impl |-> impl, acceleration |-> acceleration,
              fs |-> fs,
              spectrum |-> (IF impl = "transforms" THEN filters_fft(acceleration)
                            ELSE fft(acceleration)).out,
              res |-> siteFrequencyBy(impl, acceleration, fs)]
  /\ UNCHANGED <<sweep, pipelineVars>>

ariasBy(impl, time, acceleration) ==
  IF impl = "sp" THEN calculateAriasIntensity(time, acceleration)
  ELSE IF impl = "analysis" THEN analysis_calculateAriasIntensity(acceleration, time)
  ELSE integrated_calculateAriasIntensity(acceleration, time)

AriasIntensity(impl, acceleration, dt) ==
  /\ call.op = "none"
  /\ call' = [op |-> "ariasIntensity", impl |-> impl, acceleration |-> acceleration,
              time |-> generateTimeArray(dt, Len(acceleration)),
              res |-> ariasBy(impl, generateTimeArray(dt, Len(acceleration)),
                              acceleration)]
  /\ UNCHANGED <<sweep, pipelineVars>>

IntensityNext ==
  \/ \E impl \in {"sp", "analysis", "integrated"}, acceleration \in BracketAccels,
        dt \in IntensityDts :
        AriasIntensity(impl, acceleration, dt)
  \/ \E impl \in {"sp", "analysis", "integrated"}, acceleration \in BracketAccels,
        dt \in IntensityDts, ratio \in Ratios :
        \* analysis.js reads a threshold of 0 as none given: a ratio of 0
        \* cannot be asked of it.
        /\ impl = "analysis" => ratio # Zero
        /\ BracketedDuration(impl, acceleration, dt, ratio)
  \/ \E impl \in {"sp", "transforms", "gui", "integrated"},
        acceleration \in BracketAccels \cup {fiveSamples}, fs \in {Num(4), Num(100)} :
        SiteFrequency(impl, acceleration, fs)
  \/ Return

SpecIntensity == Init /\ [][IntensityNext]_vars

\* ------------------------------------------------- one oscillator's response

NewmarkSamples == 5

NewmarkAccels == SeqsFrom({Num(-1), Num(0), Num(1)}, 1, NewmarkSamples)

NewmarkDts == {Num(1)}

NewmarkOmegas == {Num(1), Num(2)}

\* The arrays u, v, acc of one period after its time loop, by newmarkBeta of
\* utils.js, or by the body of the period loop of SignalProcessor, analysis.js
\* or the integrated processor; a period their guard skips leaves no response,
\* which is written as the arrays of zeros its peaks (0, 0, 0) stand for.
responseBy(impl, acceleration, dt, omega, zeta) ==
  LET K == newmarkConstants(dt)
      fresh == freshArrays(Len(acceleration))
      period(o) ==
        CASE impl = "utils" -> newmark_timeLoop(K, o, acceleration, 2, fresh)
          [] impl = "sp" ->
               IF sp_degenerate(o.keff) THEN fresh
               ELSE sp_timeLoop(K, o, acceleration, 2, fresh)
          [] impl = "analysis" ->
               IF analysis_degenerate(o.keff) THEN fresh
               ELSE newmark_timeLoop(K, o, acceleration, 2, fresh)
          [] impl = "integrated" ->
               IF sp_degenerate(o.keff) THEN fresh
               ELSE integrated_timeLoop(K, o, acceleration, 2, fresh)
  IN  period(oscillator(K, omega, zeta))

\* One oscillator (omega, zeta) driven by a recording sampled every dt.
Newmark(impl, acceleration, dt, omega, zeta) ==
  /\ call.op = "none"
  /\ call' = [op |-> "newmark", impl |-> impl, acceleration |-> acceleration,
              dt |-> dt, omega |-> omega, zeta |-> zeta,
              keff |-> oscillator(newmarkConstants(dt), omega, zeta).keff,
              r |-> responseBy(impl, acceleration, dt, omega, zeta)]
  /\ UNCHANGED <<sweep, pipelineVars>>

\* analysis.js replaces a damping of 0 by its default before the period loop,
\* so its period body never sees zeta = 0.
NewmarkNext ==
  \/ \E impl \in {"utils", "sp", "integrated"}, acceleration \in NewmarkAccels,
        dt \in NewmarkDts, omega \in NewmarkOmegas, zeta \in {Zero, One} :
        Newmark(impl, acceleration, dt, omega, zeta)
  \/ \E acceleration \in NewmarkAccels, dt \in NewmarkDts, omega \in NewmarkOmegas :
        Newmark("analysis", acceleration, dt, omega, One)
  \/ Return

SpecNewmark == Init /\ [][NewmarkNext]_vars

\* ---------------------------------------------------------- batch runs
\* batchProcessRecords of MatlabProcessor, batchAnalyze of the GUI analyzer and
\* batchProcessWithPreprocessing of the import script.  A batch is sequential:
\* between two of its awaits nothing else runs on the client.

MaxBatch == 3

\* The order in which find(...).toArray() returns the records.
collectionOrder == <<"fixture", "empty", "short">>

\* What the files of an event may hold: data that fails the basic validation,
\* data on which one of the steps 2 to 7 throws, and data that reaches the
\* final validation; what a run does not get to is left at "valid" or 0.
RawDataKinds ==
  [basic : {"none", "noArrays", "mismatch", "short", "mismatchShort"},
   throwsAt : {0}, final : {"valid"}]
    \cup [basic : {"valid"}, throwsAt : {2, 3, 4, 5, 6, 7}, final : {"valid", "both"}]
    \cup [basic : {"valid"}, throwsAt : {0},
          final : {"valid", "invalid", "extreme", "both"}]

\* batchProcessRecords(query, options) / batchAnalyze(query, options) up to
\* await this.client.connect(); query is the set of ids it matches.  For the
\* import script, batchProcessWithPreprocessing(baseDirectory) on a directory
\* of n events, up to await client.connect().
BatchStart(cls, query, direction, n) ==
  /\ call.op = "none" \/ (call.op = "batch" /\ call.pc = "returned")
  /\ \A k \in Slots : inv[k].pc = "idle"
  /\ cls # "DataPreprocessor" => analyzer.cls = cls
  /\ call' = [op |-> "batch", cls |-> cls, pc |-> "connect", query |-> query,
              direction |-> direction, n |-> n, records |-> <<>>, results |-> <<>>,
              successCount |-> 0, errorCount |-> 0,
              files |-> [parsed |-> FALSE],
              item |-> [err |-> "none", preprocessing |-> preprocessing_failed(<<>>, <<>>),
                        ran |-> FALSE]]
  /\ UNCHANGED <<sweep, pipelineVars>>

\* connect() resolves.  The analyzers call find(...).toArray(); the import
\* script lists the directory, which is synchronous, and enters its loop.
BatchConnected ==
  /\ call.op = "batch" /\ call.pc = "connect"
  /\ client' = [connected |-> TRUE]
  /\ call' = IF call.cls = "DataPreprocessor"
             THEN [call EXCEPT !.pc = "loop", !.records = [i \in 1..call.n |-> i]]
             ELSE [call EXCEPT !.pc = "find"]
  /\ UNCHANGED <<sweep, analyzer, stored, inv>>

\* find resolves with the records the query matches that have no analysis yet.
BatchFound ==
  /\ call.op = "batch" /\ call.pc = "find"
  /\ LET unprocessed(id) == id \in call.query /\ ~stored[id].saved
     IN  call' = [call EXCEPT !.pc = "loop",
                              !.records = SelectSeq(collectionOrder, unprocessed)]
  /\ UNCHANGED <<sweep, pipelineVars>>

\* for (const record of records): the next record is handed to
\* processEarthquakeData / analyzeEarthquakeRecord, which the batch awaits.
BatchProcess ==
  /\ call.op = "batch" /\ call.pc = "loop" /\ call.cls # "DataPreprocessor"
  /\ Len(call.results) < Len(call.records)
  /\ Invoke(1, call.records[Len(call.results) + 1], call.direction)

\* The awaited invocation has returned or thrown: one entry is pushed and one
\* counter incremented, in the try or in the catch of the loop body.
BatchCollect ==
  /\ call.op = "batch" /\ call.pc = "loop"
  /\ inv[1].pc = "done"
  /\ call' = [call EXCEPT
       !.results = Append(@, [recordId |-> inv[1].recordId,
                              success |-> inv[1].error = "none",
                              error |-> inv[1].error]),
       !.successCount = IF inv[1].error = "none" THEN @ + 1 ELSE @,
       !.errorCount = IF inv[1].error = "none" THEN @ ELSE @ + 1]
  /\ inv' = [inv EXCEPT ![1] = NoInvocation]
  /\ UNCHANGED <<sweep, analyzer, client, stored>>

\* The import script's loop body up to its first await on the database: the
\* files of the next event are parsed and preprocessed; a throw is caught by
\* the loop, which pushes the failure and goes on.
BatchFiles(files) ==
  /\ call.op = "batch" /\ call.pc = "loop" /\ call.cls = "DataPreprocessor"
  /\ Len(call.results) < Len(call.records)
  /\ LET handled(parsedData) ==
           IF parsedData.err = "none"
           THEN [call EXCEPT !.pc = "insert", !.files = files, !.item = parsedData]
           ELSE [call EXCEPT
                   !.files = files,
                   !.item = parsedData,
                   !.results = Append(@, [recordId |-> Len(@) + 1, success |-> FALSE,
                                          error |-> parsedData.err]),
                   !.errorCount = @ + 1]
     IN  call' = handled(processEarthquakeFilesWithPreprocessing(files))
  /\ UNCHANGED <<sweep, pipelineVars>>

\* insertEarthquakeDataWithPreprocessing resolves: the upserts wrote the
\* event, the station and the record (a stored analysis is left as it is).
BatchInserted ==
  /\ call.op = "batch" /\ call.pc = "insert"
  /\ call' = [call EXCEPT
       !.pc = "loop",
       !.results = Append(@, [recordId |-> Len(@) + 1, success |-> TRUE,
                              error |-> "none"]),
       !.successCount = @ + 1]
  /\ UNCHANGED <<sweep, pipelineVars>>

\* The loop is over: the finally block awaits close() and results is returned.
BatchFinish ==
  /\ call.op = "batch" /\ call.pc = "loop"
  /\ inv[1].pc = "idle"
  /\ Len(call.results) = Len(call.records)
  /\ client' = [connected |-> FALSE]
  /\ call' = [call EXCEPT !.pc = "returned"]
  /\ UNCHANGED <<sweep, analyzer, stored, inv>>

\* The instance is constructed, with its client, before its batch is started.
BatchNext ==
  \/ \E cls \in {"EarthquakeAnalyzer", "MatlabProcessor"} :
        call.op = "none" /\ Construct(cls)
  \/ \E cls \in {"EarthquakeAnalyzer", "MatlabProcessor"}, query \in SUBSET StoredIds,
        direction \in {"ns_acceleration", "ew_acceleration"} :
        BatchStart(cls, query, direction, 0)
  \/ \E n \in 0..MaxBatch : BatchStart("DataPreprocessor", {}, "ns_acceleration", n)
  \/ BatchConnected
  \/ BatchFound
  \/ BatchProcess
  \/ ConnectDone(1)
  \/ FindDone(1)
  \/ UpdateDone(1)
  \/ CloseDone(1)
  \/ BatchCollect
  \/ \E parsed \in BOOLEAN, rawData \in RawDataKinds :
        BatchFiles([parsed |-> parsed, rawData |-> rawData])
  \/ BatchInserted
  \/ BatchFinish

SpecBatch == Init /\ [][BatchNext]_vars

\* ================================================================ claims

Positive(x) == Gt(x, Zero)

\* C1: highPass(data, fs, fc) returns a series with exactly as many samples as
\* data, for every input length n >= 1 (fs > 0, fc > 0), also when n is not a
\* power of two; stated of the three implementations the claim names
\* (utils.js, SignalProcessor, the integrated processor).
C1_HighPassKeepsLength ==
  (call.op = "highPass" /\ call.impl \in {"utils", "sp", "integrated"}
     /\ Len(call.data) >= 1 /\ Positive(call.fs) /\ Positive(call.fc))
    => (call.res.err = "none" /\ Len(call.res.out) = Len(call.data))

\* C3: forward(x) zero-pads and never truncates: for every input of length
\* n >= 1 the transform is the radix-2 transform of x followed by P(n) - n
\* zeros, P(n) the least power of two >= n, and has P(n) bins.
C3_ForwardZeroPads ==
  (call.op = "fft" /\ Len(call.x) >= 1)
    => /\ call.res.err = "none"
       /\ Len(call.res.out) = NextPow2(Len(call.x))
       /\ call.res = fftRecursive(ZeroPad(toComplex(call.x), NextPow2(Len(call.x))))

\* C4: round trip: for every real input x whose length is a power of two,
\* inverse(forward(x)) has the length of x, its real part equals x element by
\* element and its imaginary part is zero.
C4_RoundTrip ==
  (call.op = "ifft" /\ IsPow2(Len(call.x)))
    => /\ call.res.err = "none"
       /\ Len(call.res.out) = Len(call.x)
       /\ \A i \in 1..Len(call.x) :
            call.res.out[i].real = call.x[i] /\ call.res.out[i].imag = Zero

\* A length-8 round trip by SignalProcessor.ifft whose spectrum has a bin
\* with a sqrt(2) part.
C4_Witness ==
  /\ call.op = "ifft"
  /\ call.impl = "sp"
  /\ Len(call.x) = 8
  /\ call.x[1] = Num(2)
  /\ call.X[2].real[2] # 0
  /\ call.res.err = "none"

\* C9: highPass(data, fs, fc) fails, returning no filtered series, whenever
\* fc <= 0 or fs <= 0 (data being a series of n >= 1 samples).
C9_RejectsNonPositive ==
  (call.op = "highPass" /\ Len(call.data) >= 1
     /\ (Le(call.fc, Zero) \/ Le(call.fs, Zero)))
    => call.res.err # "none"

\* C10: cumulativeTrapezoid(time, values) and trapezoid(time, values) fail and
\* return no result whenever time and values differ in length or time is not
\* strictly increasing.
C10_RejectsBadTime ==
  (call.op \in {"cumtrapz", "trapz"}
     /\ (Len(call.time) # Len(call.values) \/ ~StrictlyIncreasing(call.time)))
    => call.res.err # "none"

\* The effective stiffness of period i of the sweep recorded in call.
KeffOf(i) ==
  oscillator(newmarkConstants(dtBy(call.impl, call.time, call.dt)), call.omegas[i],
             call.zeta).keff

\* Non-finite (NaN or infinite) or non-positive (zero or negative).
Degenerate(keff) == ~IsFinite(keff) \/ Le(keff, Zero)

\* C5: whenever the effective stiffness of a period is non-finite or
\* non-positive, the sweep emits exactly 0 for SD, PSV and PSA of that period
\* (so no NaN is written for it).
C5_DegenerateEmitsZero ==
  call.op = "spectrum" =>
    \A i \in 1..Len(call.omegas) :
      Degenerate(KeffOf(i)) =>
        /\ i <= Len(call.res.SD) /\ call.res.SD[i] = Zero
        /\ i <= Len(call.res.PSV) /\ call.res.PSV[i] = Zero
        /\ i <= Len(call.res.PSA) /\ call.res.PSA[i] = Zero

\* C6: a degenerate period never aborts the sweep: SD, PSV and PSA each have
\* exactly one entry per requested period, in the order of the periods, and
\* the entry of every period is the one the sweep returns for that period
\* asked alone, whatever the other periods of the grid are.
C6_SweepNeverAborts ==
  call.op = "spectrum" =>
    /\ Len(call.res.SD) = Len(call.omegas)
    /\ Len(call.res.PSV) = Len(call.omegas)
    /\ Len(call.res.PSA) = Len(call.omegas)
    /\ \A i \in 1..Len(call.omegas) :
         LET alone == spectrumBy(call.impl, call.acceleration, call.time, call.dt,
                                 call.zeta, <<call.omegas[i]>>)
         IN  /\ call.res.SD[i] = alone.SD[1]
             /\ call.res.PSV[i] = alone.PSV[1]
             /\ call.res.PSA[i] = alone.PSA[1]

\* A sweep by SignalProcessor whose first period is degenerate (keff = 0) and
\* whose second one responds.
C6_Witness ==
  /\ call.op = "spectrum"
  /\ call.impl = "sp"
  /\ Len(call.omegas) = 2
  /\ KeffOf(1) = Zero
  /\ Positive(KeffOf(2))
  /\ call.res.SD[2] # Zero

\* What the sweep of sweep.impl returns for period i asked alone.
aloneOf(i) ==
  LET S == spectrumBy(sweep.impl, sweep.acceleration, sweep.time, sweep.dt, sweep.zeta,
                      <<sweep.omegas[i]>>)
  IN  [SD |-> S.SD[1], PSV |-> S.PSV[1], PSA |-> S.PSA[1]]

\* C8: the (SD, PSV, PSA) triple of a period depends only on (acceleration,
\* dt, damping ratio, period): in whatever order the periods of the grid are
\* processed and however their time steps interleave, and whatever the other
\* periods are, a finished period has the triple the sweep returns for it alone.
C8_PerPeriodIndependence ==
  sweep.phase = "running" =>
    \A i \in 1..Len(sweep.omegas) :
      sweep.task[i].pc = "done" => sweep.task[i].out = aloneOf(i)

\* Period 2 finished, with a response, while period 1 of a different omega is
\* in the middle of its time loop.
C8_Witness ==
  /\ sweep.phase = "running"
  /\ Len(sweep.omegas) = 2
  /\ sweep.omegas[1] # sweep.omegas[2]
  /\ sweep.task[2].pc = "done"
  /\ sweep.task[2].out.SD # Zero
  /\ sweep.task[1].pc = "stepping"
  /\ sweep.task[1].j = 3

\* The bracketed duration of the north-south component in the result of
\* invocation k.
bracketOf(k) ==
  IF analyzer.cls = "MatlabProcessor"
  THEN inv[k].result.matlabAnalysis["ns_acceleration"].bracketedDuration
  ELSE inv[k].result.bracketedDuration

\* Invocation k has analysed the north-south component of the end-to-end
\* series [0,0,0,10,-10,0,0,0], dt = 0.01 s, fc = 0.05 Hz.
FixtureAnalysed(k) ==
  /\ inv[k].pc \in {"updateOne", "close", "done"}
  /\ inv[k].recordId = "fixture"
  /\ inv[k].direction = "ns_acceleration"
  /\ inv[k].error = "none"

\* C2 as stated: on the end-to-end series the bracketed duration at
\* 0.05 x (post-filter PGA) has first exceedance index 3, last exceedance
\* index 4 and duration 0.01 s.
C2_BracketSpans3To4 ==
  \A k \in Slots :
    FixtureAnalysed(k) =>
      /\ bracketOf(k).startIndex = 3
      /\ bracketOf(k).endIndex = 4
      /\ bracketOf(k).duration = Rat(1, 100)

\* C2 amended: after detrend and high-pass the end-to-end series is
\* [-5/6, -25/42, -5/14, 415/42, -415/42, 5/14, 25/42, 5/6]; every sample but
\* the third and the sixth reaches 0.05 x PGA = 0.05 x 415/42, so the first
\* exceedance index is 0, the last is 7 and the duration is 0.07 s.
C2_BracketSpans0To7 ==
  \A k \in Slots :
    FixtureAnalysed(k) =>
      /\ bracketOf(k).startIndex = 0
      /\ bracketOf(k).endIndex = 7
      /\ bracketOf(k).duration = Rat(7, 100)

C2_Witness ==
  /\ analyzer.cls = "MatlabProcessor"
  /\ FixtureAnalysed(1)
  /\ inv[1].pc = "done"
  /\ inv[1].result.matlabAnalysis["ns_acceleration"].peakValues.PGA = Rat(415, 42)

\* What the invocation returns, or throws, on an instance no other
\* invocation uses.
aloneOutcome(cls, recordId, direction) ==
  analysisBy(constructed(cls), recordId \in StoredIds, findOne(recordId), recordId,
             direction).outcome

\* Invocations 1 and 2 are for distinct records or directions.
DistinctTargets ==
  /\ inv[1].pc # "idle"
  /\ inv[2].pc # "idle"
  /\ \/ inv[1].recordId # inv[2].recordId
     \/ (analyzer.cls = "EarthquakeAnalyzer" /\ inv[1].direction # inv[2].direction)

\* C7: two invocations for distinct records/directions, interleaved at their
\* suspension points on one instance, each return exactly what they return
\* when run alone.
C7_NoHiddenState ==
  DistinctTargets =>
    \A k \in Slots :
      inv[k].pc = "done" =>
        /\ inv[k].error = aloneOutcome(analyzer.cls, inv[k].recordId, inv[k].direction).error
        /\ inv[k].result = aloneOutcome(analyzer.cls, inv[k].recordId, inv[k].direction).result

\* The series an invocation of cls for (recordId, direction) is to analyse:
\* the named direction for EarthquakeAnalyzer, the three directions of the
\* record for MatlabProcessor.
seriesOf(cls, recordId, direction) ==
  IF cls = "EarthquakeAnalyzer" THEN {Records[recordId].data[direction]}
  ELSE {Records[recordId].data[d] : d \in DirectionNames}

EmptyInput(cls, recordId, direction) ==
  /\ recordId \in StoredIds
  /\ \A series \in seriesOf(cls, recordId, direction) : Len(series) = 0

\* C11: an invocation whose record holds only empty acceleration series ends
\* in an error once findOne has resolved, carries no analysis result, and
\* nothing (no analysis, no analysis_complete flag) is persisted for it.
C11_EmptySeriesFailsFast ==
  /\ \A k \in Slots :
       (/\ inv[k].pc \in {"updateOne", "close", "done"}
        /\ EmptyInput(analyzer.cls, inv[k].recordId, inv[k].direction))
       => (inv[k].error # "none" /\ inv[k].result = NoResult)
  /\ \A id \in StoredIds :
       stored[id].saved => ~EmptyInput(stored[id].by, id, stored[id].direction)

\* The 0-based indices of the samples of the call that reach ratio x PGA.
Reaching ==
  {i \in 0..(Len(call.acceleration) - 1) :
     Ge(MathAbs(call.acceleration[i + 1]), Mul(call.ratio, maxAbs(call.acceleration)))}

MinOf(S) == CHOOSE m \in S : \A o \in S : m <= o
MaxOf(S) == CHOOSE m \in S : \A o \in S : m >= o

C13_SentinelIsNotNaN ==
  (call.op = "bracketedDuration" /\ Len(call.acceleration) >= 1 /\ Reaching = {}) =>
    /\ call.res.duration = Zero
    /\ ~IsNaN(call.res.startTime)
    /\ ~IsNaN(call.res.endTime)

\* The single-sided bins 0..N/2 of the spectrum of the call whose squared
\* magnitude no other single-sided bin exceeds.
DominantBins ==
  LET half == 0..(Len(call.spectrum) \div 2)
  IN  {i \in half : \A j \in half : Ge(magnitudeSq(call.spectrum[i + 1]),
                                        magnitudeSq(call.spectrum[j + 1]))}

\* C14: for a series of two samples or more the reported dominant bin is the
\* lowest index among the bins 0..N/2 inclusive (N the transform length)
\* that carry the largest |FFT[i]|.
C14_ArgmaxOverHalfSpectrum ==
  (/\ call.op = "siteFrequency"
   /\ call.res.err = "none"
   /\ Len(call.acceleration) >= 2)
  => call.res.out.index = MinOf(DominantBins)

\* The call is an Arias intensity of two or more samples that are all equal.
ConstantSignal ==
  /\ call.op = "ariasIntensity"
  /\ Len(call.acceleration) >= 2
  /\ \A i \in 1..Len(call.acceleration) : call.acceleration[i] = call.acceleration[1]

\* a^2 x T (to be multiplied by pi/2g) for the constant signal of the call,
\* a in m/s^2 (the sample / 100) and T = time[last] - time[first].
ClosedForm ==
  Mul(Mul(Div(call.acceleration[1], Num(100)), Div(call.acceleration[1], Num(100))),
      Sub(call.time[Len(call.time)], call.time[1]))

UniformSpacing(dt) ==
  \A i \in 1..(Len(call.time) - 1) : Sub(call.time[i + 1], call.time[i]) = dt

\* C16: cumulativeTrapezoid of equally long arrays returns a series whose
\* first element is 0; for all-zero values every element is 0; for a
\* constant c at uniform spacing dt element i (from 0) is c x dt x i.
C16_CumtrapzOfConstant ==
  (call.op = "cumtrapz" /\ Len(call.time) = Len(call.values)) =>
    /\ call.res.err = "none"
    /\ Len(call.res.out) >= 1
    /\ call.res.out[1] = Zero
    /\ (\A i \in 1..Len(call.values) : call.values[i] = Zero)
         => \A i \in 1..Len(call.res.out) : call.res.out[i] = Zero
    /\ \A c \in {Num(0), Num(1), Num(-2)}, dt \in {Num(-1), Num(0), Num(1), Num(2)} :
         (/\ \A i \in 1..Len(call.values) : call.values[i] = c
          /\ UniformSpacing(dt))
         => \A i \in 1..Len(call.values) :
              call.res.out[i] = Mul(Mul(c, dt), Num(i - 1))

\* The constant -2 at the instants 0, 1, 2 integrates to 0, -2, -4.
C16_Witness ==
  /\ call.op = "cumtrapz"
  /\ call.time = <<Num(0), Num(1), Num(2)>>
  /\ call.values = <<Num(-2), Num(-2), Num(-2)>>
  /\ call.res.out = <<Num(0), Num(-2), Num(-4)>>

\* The call filters a series of one sample or more that are all equal, with
\* fs > 0 and fc > 0.
ConstantFiltered ==
  /\ call.op = "highPass"
  /\ Len(call.data) >= 1
  /\ \A i \in 1..Len(call.data) : call.data[i] = call.data[1]
  /\ Positive(call.fs)
  /\ Positive(call.fc)

\* C17: high-pass filtering a constant series (any length n >= 1, fs > 0,
\* fc > 0) returns a series that is 0 in every sample; stated of utils.js
\* highPassFilter and of filters.js preprocessBoore.
C17_ConstantFiltersToZero ==
  (ConstantFiltered /\ call.impl \in {"utils", "filters"}) =>
    /\ call.res.err = "none"
    /\ \A i \in 1..Len(call.res.out) : call.res.out[i] = Zero

\* The mask utils.js highPassFilter and SignalProcessor.highPassFilter
\* build for the call, over the N bins of the padded transform.
MaskOfCall ==
  LET masked(N) == symmetrize(maskGe(N, N, call.fs, call.fc), (N \div 2) + 1, N)
  IN  masked(Len(fft(detrend(call.data)).out))

\* The call filters one sample or more at a corner frequency fc >= fs/2.
AtOrAboveNyquist ==
  /\ call.op = "highPass"
  /\ call.impl \in {"utils", "sp"}
  /\ Len(call.data) >= 1
  /\ Positive(call.fs)
  /\ Ge(call.fc, Div(call.fs, Num(2)))

\* C18: highPass with fc >= fs/2 (fs > 0) returns normally; its mask is 0 in
\* every bin, except that the Nyquist bin (the bin i with 2i = N, which a
\* one-bin transform does not have) passes when fc = fs/2 exactly; for
\* fc > fs/2 the output is 0 in every sample.
C18_CornerAtOrAboveNyquist ==
  AtOrAboveNyquist =>
    /\ call.res.err = "none"
    /\ LET nyquistOnly(mask) ==
             \A i \in 1..Len(mask) :
               IF 2 * (i - 1) = Len(mask) /\ call.fc = Div(call.fs, Num(2))
               THEN mask[i] = One
               ELSE mask[i] = Zero
       IN  nyquistOnly(MaskOfCall)
    /\ Gt(call.fc, Div(call.fs, Num(2)))
         => \A i \in 1..Len(call.res.out) : call.res.out[i] = Zero

\* [2, -1, 2, -1] at fs = 4, fc = 2 = fs/2: the Nyquist bin passes and the
\* output is not zero; for fc = 3 nothing passes.
C18_Witness ==
  /\ AtOrAboveNyquist
  /\ call.data = <<Num(2), Num(-1), Num(2), Num(-1)>>
  /\ \/ /\ call.fc = Num(2)
        /\ MaskOfCall = <<Zero, Zero, One, Zero>>
        /\ call.res.out[1] # Zero
     \/ /\ call.fc = Num(3)
        /\ call.res.out = <<Zero, Zero, Zero, Zero>>

\* C19: detrend of a series of fewer than two samples returns the series as
\* it was given, element for element; stated of utils.js, filters.js and
\* array_utils.js.
C19_ShortSeriesUnchanged ==
  (/\ call.op = "detrend"
   /\ call.impl \in {"utils", "filters", "array_utils"}
   /\ Len(call.data) < 2)
  => call.res = call.data

\* C20: for a series of two samples or more, detrending the detrended series
\* gives the detrended series again, element for element, and both have the
\* length of the input (exact arithmetic; rounding is not modelled).
C20_DetrendIdempotent ==
  (call.op = "detrendAgain" /\ Len(call.data) >= 2) =>
    /\ call.res = call.once
    /\ Len(call.once) = Len(call.data)
    /\ Len(call.res) = Len(call.data)

\* [-1, 0, 2] has the trend 3/2 i - 7/6: the first pass leaves
\* [1/6, -1/3, 1/6], and so does the second.
C20_Witness ==
  /\ call.op = "detrendAgain"
  /\ call.impl = "utils"
  /\ call.data = <<Num(-1), Num(0), Num(2)>>
  /\ call.once = <<Rat(1, 6), Rat(-1, 3), Rat(1, 6)>>
  /\ call.res = call.once

C22_ResponseBounded ==
  (call.op = "newmark" /\ call.zeta = One)
    => LET bounded(limit) ==
             \A j \in 1..Len(call.acceleration) :
               /\ IsFinite(call.r.u[j]) /\ Le(MathAbs(call.r.u[j]), limit)
               /\ IsFinite(call.r.v[j]) /\ Le(MathAbs(call.r.v[j]), limit)
               /\ IsFinite(call.r.a[j]) /\ Le(MathAbs(call.r.a[j]), limit)
       IN  bounded(Mul(Num(3), maxAbs(call.acceleration)))

\* C25: every Newmark-Beta call site produces, step by step, the sequences of
\* the one recurrence v[j] = a1 (u[j] - u[j-1]) - a4 v[j-1] - a5 acc[j-1] and
\* acc[j] = a0 (u[j] - u[j-1]) - a2 v[j-1] - a3 acc[j-1], and so the same u, v
\* and acc as utils.js newmarkBeta on the same input.
C25_SameRecurrence ==
  call.op = "newmark"
    => LET standard(K, r) ==
             /\ \A j \in 2..Len(call.acceleration) :
                  /\ r.v[j] = Sub(Sub(Mul(K.a1, Sub(r.u[j], r.u[j - 1])),
                                      Mul(K.a4, r.v[j - 1])), Mul(K.a5, r.a[j - 1]))
                  /\ r.a[j] = Sub(Sub(Mul(K.a0, Sub(r.u[j], r.u[j - 1])),
                                      Mul(K.a2, r.v[j - 1])), Mul(K.a3, r.a[j - 1]))
             /\ r = newmarkBeta(call.acceleration, call.dt, call.omega, call.zeta)
       IN  standard(newmarkConstants(call.dt), call.r)

\* C28: from zero initial conditions the recurrence is driven only by the
\* increments of the ground acceleration: when the ground acceleration is the
\* same at every sample (zero or not) and keff is finite and positive, every
\* u[j], v[j] and acc[j] is 0, and so SD = PSV = PSA = 0.
ConstantGround(acceleration) ==
  \A j \in 1..Len(acceleration) : acceleration[j] = acceleration[1]

C28_ConstantGroundNoResponse ==
  (/\ call.op = "newmark"
   /\ ConstantGround(call.acceleration)
   /\ IsFinite(call.keff) /\ Gt(call.keff, Zero))
    => /\ call.r = freshArrays(Len(call.acceleration))
       /\ peaksOf(call.r) = [SD |-> Zero, PSV |-> Zero, PSA |-> Zero]

C28_Witness ==
  /\ call.op = "newmark"
  /\ call.impl = "sp"
  /\ call.acceleration = <<Num(-1), Num(-1), Num(-1), Num(-1)>>
  /\ call.keff = Num(9)
  /\ peaksOf(call.r).PSA = Zero

\* C23: between the input acceleration (cm/s^2) and the reported SD, PSV and
\* PSA (m, m/s, m/s^2) the division by 100 is applied exactly once: the spectrum
\* reported for the acceleration a is the sweep's peak response to a / 100.
C23_ConvertedOnce ==
  call.op = "spectrum"
    => LET inMetres(a) == [i \in 1..Len(a) |-> Div(a[i], Num(100))]
       IN  call.res = spectrumBy(call.impl, inMetres(call.acceleration), call.time,
                                 call.dt, call.zeta, call.omegas)

\* C24: the high-pass mask holds only 0 and 1 and has exactly one entry for
\* each of the N bins of the (padded) spectrum it multiplies, so that no bin
\* meets a missing entry; it is symmetric, mask[i] = mask[N - i] for
\* 1 <= i <= N - 1, and mask[0] = 0 when fc > 0.
C24_MaskCoversSpectrum ==
  (call.op = "highPass" /\ call.res.err = "none")
    => LET covers(mask, N) ==
             /\ Len(mask) = N
             /\ \A i \in 1..Len(mask) : mask[i] \in {Zero, One}
             /\ \A i \in 1..(N - 1) : i + 1 <= Len(mask) /\ N - i + 1 <= Len(mask)
                                        => mask[i + 1] = mask[N - i + 1]
             /\ (Gt(call.fc, Zero) /\ Len(mask) >= 1) => mask[1] = Zero
       IN  covers(call.filter.mask, call.filter.bins)

\* C26: the site frequency reported for the dominant bin k is k * fs / N, N
\* being the length of the series actually transformed (after zero-padding),
\* and the frequency axis has an entry for every amplitude searched.
C26_FrequencyOfPaddedBin ==
  (/\ call.op = "siteFrequency"
   /\ call.impl \in {"sp", "gui", "integrated"}
   /\ call.res.out.index >= 0)
    => call.res.out.frequency
         = Div(Mul(Num(call.res.out.index), call.fs), Num(Len(call.spectrum)))

\* The 0-based indices of the samples of largest |acceleration| of the call.
PeakIndices ==
  {i \in 0..(Len(call.acceleration) - 1) :
     \A j \in 1..Len(call.acceleration) :
       Le(MathAbs(call.acceleration[j]), MathAbs(call.acceleration[i + 1]))}

\* C27: on a non-empty finite series with a ratio in [0, 1] the threshold
\* ratio x max|a| is reached by the peak sample, so the branch for no
\* exceedance is not taken; the bracket holds the peak (startIndex <= peak
\* index <= endIndex) and, the time not decreasing, the duration is >= 0.
C27_PeakIsBracketed ==
  (/\ call.op = "bracketedDuration"
   /\ Len(call.acceleration) >= 1
   /\ Ge(call.ratio, Zero) /\ Le(call.ratio, One))
    => /\ IsFinite(call.res.startTime) /\ IsFinite(call.res.endTime)
       /\ call.impl = "sp" =>
            \A p \in PeakIndices : call.res.startIndex <= p /\ p <= call.res.endIndex
       /\ \A p \in PeakIndices :
            /\ Le(call.res.startTime, call.time[p + 1])
            /\ Le(call.time[p + 1], call.res.endTime)
       /\ Ge(call.res.duration, Zero)

\* [0, -1, 2, 0] at ratio 1: only the peak, sample 2, reaches the threshold.
C27_Witness ==
  /\ call.op = "bracketedDuration"
  /\ call.impl = "sp"
  /\ call.acceleration = <<Num(0), Num(-1), Num(2), Num(0)>>
  /\ call.ratio = One
  /\ call.res.startIndex = 2
  /\ call.res.endIndex = 2
  /\ call.res.duration = Zero

\* The number of entries of results with the given success flag.
CountOf(results, flag) == Cardinality({i \in 1..Len(results) : results[i].success = flag})

\* C29: a batch visits the records once each, in order: the entries of
\* results are those of the records visited so far, a failure carries its
\* error message and does not stop the loop, successCount + errorCount is the
\* number of entries (the number of records when the batch returns), every
\* read or write of the database is pending on a connected client, and the
\* client is closed when the batch has returned.
C29_BatchVisitsEachOnce ==
  call.op = "batch"
    => /\ Len(call.results) <= Len(call.records)
       /\ \A i \in 1..Len(call.results) :
            /\ call.results[i].recordId = call.records[i]
            /\ call.results[i].success <=> call.results[i].error = "none"
       /\ call.successCount = CountOf(call.results, TRUE)
       /\ call.errorCount = CountOf(call.results, FALSE)
       /\ call.successCount + call.errorCount = Len(call.results)
       /\ inv[1].pc # "idle" =>
            /\ Len(call.results) < Len(call.records)
            /\ inv[1].recordId = call.records[Len(call.results) + 1]
       /\ (call.pc \in {"find", "insert"} \/ inv[1].pc \in {"findOne", "updateOne"})
            => client.connected
       /\ call.pc = "returned" =>
            /\ Len(call.results) = Len(call.records)
            /\ call.successCount + call.errorCount = Len(call.records)
            /\ ~client.connected

\* batchAnalyze over the three records: the second fails, the third is
\* analysed all the same.
C29_Witness ==
  /\ call.op = "batch"
  /\ call.cls = "EarthquakeAnalyzer"
  /\ call.pc = "returned"
  /\ call.records = <<"fixture", "empty", "short">>
  /\ Len(call.results) = 3
  /\ call.results[1].success /\ ~call.results[2].success /\ call.results[3].success
  /\ call.successCount = 2 /\ call.errorCount = 1
  /\ ~client.connected

\* C30: preprocessEarthquakeData returns processedData non-null exactly when
\* preprocessing.errors is empty; a failed basic validation returns with
\* 'Basic validation' as its only step; a successful run has recorded the
\* seven steps in their fixed order.
C30_DataIffNoErrors ==
  (call.op = "batch" /\ call.item.ran)
    => LET sound(rawData, r) ==
             /\ r.processedData # "null" <=> r.errors = <<>>
             /\ rawData.basic # "valid" =>
                  r.steps = <<"Basic validation">> /\ r.processedData = "null"
             /\ r.errors = <<>> =>
                  r.steps = <<"Basic validation", "Missing data handling",
                              "Outlier detection and correction", "Baseline correction",
                              "Quality assessment", "Sampling rate validation",
                              "Final validation">>
             /\ call.item.err = "none" <=> r.processedData # "null"
       IN  sound(call.files.rawData, call.item.preprocessing)

\* An event whose data fails the final validation: seven steps, an error and
\* no processed data; the batch records the failure.
C30_Witness ==
  /\ call.op = "batch" /\ call.item.ran
  /\ call.files.rawData = [basic |-> "valid", throwsAt |-> 0, final |-> "extreme"]
  /\ Len(call.item.preprocessing.steps) = 7
  /\ call.item.preprocessing.errors = <<"Extreme values detected">>
  /\ call.item.preprocessing.processedData = "null"
  /\ call.item.err = "Data preprocessing failed"

====
